---- MODULE Spec2Model ----
(***************************************************************************)
(* Submission intake and admin surface of the sats4berlin form handler     *)
(* (worker/src/index.js and the admin module).  Strings that the code      *)
(* inspects by position (prefixes, characters, lengths) are sequences of   *)
(* one-character strings; names that the code only compares for equality   *)
(* (HTTP methods, path names, field names, audit tags) are TLA+ strings.    *)
(***************************************************************************)
EXTENDS Integers, Sequences, FiniteSets, TLC

VARIABLES
  env,      \* worker configuration (secrets and origin overrides)
  now,      \* wall clock: [sec, ms], Date.now() = sec * 1000 + ms
  kv,       \* env.PRIVATE_DATA: key -> [value, expiry (clock second)]
  adm,      \* admin requests in flight: process -> handler state
  sub,      \* submit requests in flight: slot -> handler state
  locationIdCache,  \* index.js module state: [ids, lastFetched]
  stats     \* history: counters and marks read by the properties only

vars == <<env, now, kv, adm, sub, locationIdCache, stats>>

(***************************************************************************)
(* Bounds of the model.                                                    *)
(***************************************************************************)
MaxAuthRequests == 1
MaxAdminRequests == 3
MaxAdminProcs == 2
MaxTicks == 2
MaxSubmitRequests == 1
MaxRateRequests == 12
MaxInFlight == 2
MaxRaceRequests == 7
MaxTripRequests == 3

(***************************************************************************)
(* JavaScript values.                                                      *)
(***************************************************************************)
Undefined == [t |-> "undefined"]
Null == [t |-> "null"]
Str(s) == [t |-> "string", s |-> s]
Bool(b) == [t |-> "boolean", b |-> b]
Arr(a) == [t |-> "array", a |-> a]

\* A plain object is the record of its properties (no property is named t).
isObject(v) == "t" \notin DOMAIN v
EmptyObject == [k \in {} |-> Undefined]

\* ToBoolean: undefined, null, "" and false are falsy; objects are truthy.
Truthy(v) ==
  IF isObject(v) THEN TRUE
  ELSE CASE v.t = "string" -> v.s # <<>>
         [] v.t = "boolean" -> v.b
         [] v.t = "array" -> TRUE
         [] OTHER -> FALSE

\* String(v) inside a template literal or RegExp.test.
ToText(v) ==
  CASE v.t = "string" -> v.s
    [] v.t = "boolean" -> IF v.b THEN <<"t","r","u","e">> ELSE <<"f","a","l","s","e">>
    [] v.t = "null" -> <<"n","u","l","l">>
    [] OTHER -> <<"u","n","d","e","f","i","n","e","d">>

(***************************************************************************)
(* String primitives.                                                      *)
(***************************************************************************)
Ascii == <<" ","!","\"","#","$","%","&","'","(",")","*","+",",","-",".","/","0","1","2","3","4","5","6","7","8","9",":",";","<","=",">","?","@","A","B","C","D","E","F","G","H","I","J","K","L","M","N","O","P","Q","R","S","T","U","V","W","X","Y","Z","[","\\","]","^","_","GRAVE","a","b","c","d","e","f","g","h","i","j","k","l","m","n","o","p","q","r","s","t","u","v","w","x","y","z","{","|","}","~">>

\* String.prototype.charCodeAt for printable ASCII (code 32 is the first; the
\* grave accent, code 96, cannot be written in a TLA+ string and is named).
charCodeAt(c) == 31 + CHOOSE i \in 1..Len(Ascii) : Ascii[i] = c

UpperCaseLetters == {Ascii[i] : i \in 34..59}
LowerCaseLetters == {Ascii[i] : i \in 66..91}
DigitChars == {Ascii[i] : i \in 17..26}

\* String.prototype.toUpperCase, character by character.
UpperChar(c) ==
  IF c \in LowerCaseLetters
  THEN Ascii[(CHOOSE i \in 66..91 : Ascii[i] = c) - 32]
  ELSE c
toUpperCase(s) == [i \in 1..Len(s) |-> UpperChar(s[i])]

\* String.prototype.startsWith.
startsWith(s, p) == Len(p) <= Len(s) /\ SubSeq(s, 1, Len(p)) = p

\* String.prototype.substring(from) and substring(from, to), 0-based.
substringFrom(s, from) == SubSeq(s, from + 1, Len(s))
substring(s, from, to) ==
  SubSeq(s, from + 1, IF to < Len(s) THEN to ELSE Len(s))

\* String.prototype.trim (blanks are the only white space of the inputs).
RECURSIVE trimStart(_)
trimStart(s) == IF s # <<>> /\ Head(s) = " " THEN trimStart(Tail(s)) ELSE s
RECURSIVE trimEnd(_)
trimEnd(s) ==
  IF s # <<>> /\ s[Len(s)] = " " THEN trimEnd(SubSeq(s, 1, Len(s) - 1)) ELSE s
trim(s) == trimEnd(trimStart(s))

\* String.prototype.split(','): the pieces between the commas, in order.
RECURSIVE splitComma(_, _)
splitComma(s, piece) ==
  IF s = <<>> THEN <<piece>>
  ELSE IF Head(s) = "," THEN <<piece>> \o splitComma(Tail(s), <<>>)
  ELSE splitComma(Tail(s), Append(piece, Head(s)))
split(s) == splitComma(s, <<>>)

\* Decimal rendering of a natural number.
RECURSIVE Digits(_)
Digits(n) ==
  IF n < 10 THEN <<Ascii[17 + n]>> ELSE Digits(n \div 10) \o <<Ascii[17 + (n % 10)]>>
Pad3(n) ==
  <<Ascii[17 + (n \div 100)], Ascii[17 + ((n \div 10) % 10)], Ascii[17 + (n % 10)]>>

\* Bitwise operators on naturals (the | and ^ of timingSafeEqual).
RECURSIVE BitXor(_, _)
BitXor(a, b) ==
  IF a = 0 THEN b
  ELSE IF b = 0 THEN a
  ELSE 2 * BitXor(a \div 2, b \div 2) + (((a % 2) + (b % 2)) % 2)
RECURSIVE BitOr(_, _)
BitOr(a, b) ==
  IF a = 0 THEN b
  ELSE IF b = 0 THEN a
  ELSE 2 * BitOr(a \div 2, b \div 2) + (IF (a % 2) = 1 \/ (b % 2) = 1 THEN 1 ELSE 0)

(***************************************************************************)
(* Clock.  The epoch of the model is second 0; a time is [sec, ms].        *)
(***************************************************************************)
\* String(Date.now()) at time t.
DateNowText(t) == IF t.sec = 0 THEN Digits(t.ms) ELSE Digits(t.sec) \o Pad3(t.ms)

\* new Date().toISOString(): an injective rendering with millisecond
\* resolution.
toISOString(t) == Digits(t.sec) \o <<".">> \o Pad3(t.ms) \o <<"Z">>

(***************************************************************************)
(* Key-Value Store (Cloudflare KV binding PRIVATE_DATA).                   *)
(***************************************************************************)
\* JSON.stringify of a value and the text of something that is no JSON.
JSONstringify(v) == [t |-> "json", v |-> v]
NoText == [t |-> "none"]

KvLive(store, key, t) == key \in DOMAIN store /\ store[key].expiry > t.sec

\* get: the stored text, or null when the key is absent or expired.
KvGet(store, key, t) == IF KvLive(store, key, t) THEN store[key].value ELSE NoText

\* put with { expirationTtl: ttl } (seconds).
KvPut(store, key, value, ttl, t) ==
  [k \in DOMAIN store \cup {key} |->
     IF k = key THEN [value |-> value, expiry |-> t.sec + ttl] ELSE store[k]]

KvDelete(store, key) == [k \in DOMAIN store \ {key} |-> store[k]]

\* What the store keeps once the clock shows t: expired keys are gone.
KvExpire(store, t) ==
  [k \in {j \in DOMAIN store : store[j].expiry > t.sec} |-> store[k]]

SubmissionPrefix == <<"s","u","b","m","i","s","s","i","o","n",":">>
RateLimitPrefix == <<"r","a","t","e","l","i","m","i","t",":">>
AuditPrefix == <<"a","u","d","i","t",":">>

\* One Key-Value Store call of a handler, as recorded in its trace.
Op(kind, key) == [op |-> kind, key |-> key]

(***************************************************************************)
(* Records of the Submission Store (index.js, the private half).           *)
(***************************************************************************)
PRIVATE_FIELDS_MethodOnly == {"contact_method"}
PRIVATE_FIELDS == {"contact_method", "contact_value"}

\* obj[k] of a JavaScript object: undefined for a missing property.
Prop(obj, k) == IF k \in DOMAIN obj THEN obj[k] ELSE Undefined

\* obj[k] = v.
SetProp(obj, k, v) == [f \in DOMAIN obj \cup {k} |-> IF f = k THEN v ELSE obj[f]]

\* The loop that separates public and private data.
publicData(formData) == [k \in DOMAIN formData \ PRIVATE_FIELDS |-> formData[k]]
privateData(formData) == [k \in DOMAIN formData \cap PRIVATE_FIELDS |-> formData[k]]

\* String.prototype.toLowerCase, character by character.
LowerChar(c) ==
  IF c \in UpperCaseLetters
  THEN Ascii[(CHOOSE i \in 34..59 : Ascii[i] = c) + 32]
  ELSE c
toLowerCase(s) == [i \in 1..Len(s) |-> LowerChar(s[i])]

\* crypto.subtle.digest('SHA-256', ...) rendered as hex: the digest is a
\* deterministic function of the text alone; the model keeps that and the
\* shape of the rendering (lower-case hex digits), not SHA-256's values.
HexDigits == <<"0","1","2","3","4","5","6","7","8","9","a","b","c","d","e","f">>
RECURSIVE DigestSum(_, _)
DigestSum(s, i) ==
  IF i > Len(s) THEN 7 ELSE (charCodeAt(s[i]) * (i + 2) + 31 * DigestSum(s, i + 1)) % 65521
hashHex(s) ==
  LET h == DigestSum(s, 1)
  IN [i \in 1..64 |-> HexDigits[(((h \div i) + (i * (h % 16))) % 16) + 1]]

\* generateSubmitterId: USER- and the first 12 hex digits, upper-cased.
generateSubmitterId(contactString) ==
  <<"U","S","E","R","-">> \o toUpperCase(substring(hashHex(contactString), 0, 12))

\* The submitter id of a private mapping: null unless both contact fields
\* are non-empty.
submitterIdOf_CaseSensitive(priv) ==
  IF Truthy(Prop(priv, "contact_method")) /\ Truthy(Prop(priv, "contact_value"))
  THEN Str(generateSubmitterId(trim(priv["contact_method"].s \o <<":">> \o priv["contact_value"].s)))
  ELSE Null
submitterIdOf(priv) ==
  IF Truthy(Prop(priv, "contact_method")) /\ Truthy(Prop(priv, "contact_value"))
  THEN Str(generateSubmitterId(
         trim(toLowerCase(priv["contact_method"].s \o <<":">> \o priv["contact_value"].s))))
  ELSE Null

\* The private mapping enriched with submission id, submitter id and time,
\* as it is serialized into the store.
privateRecord_NoTimestamp(priv, submissionId, t) ==
  SetProp(SetProp(priv, "submissionId", Str(submissionId)), "submitterId", submitterIdOf(priv))
privateRecord(priv, submissionId, t) ==
  SetProp(SetProp(SetProp(priv, "submissionId", Str(submissionId)),
                  "submitterId", submitterIdOf(priv)),
          "submittedAt", Str(toISOString(t)))

SUBMISSION_TTL == 180 * 24 * 60 * 60
PAID_TTL == 30 * 24 * 60 * 60
AUDIT_TTL == 365 * 24 * 60 * 60

(***************************************************************************)
(* Admin module.                                                           *)
(***************************************************************************)
\* SUBMISSION_ID_REGEX.test(s) for /^SUB-[A-Z0-9]+-[A-Z0-9]+$/.
SubPrefix == <<"S","U","B","-">>
AlnumUpper == UpperCaseLetters \cup DigitChars
\* The expression without its end anchor: /^SUB-[A-Z0-9]+-[A-Z0-9]+/.
SUBMISSION_ID_REGEX_Unanchored(s) ==
  /\ startsWith(s, SubPrefix)
  /\ \E i \in 6..(Len(s) - 1) :
       /\ s[i] = "-"
       /\ \A j \in 5..(i - 1) : s[j] \in AlnumUpper
       /\ s[i + 1] \in AlnumUpper
SUBMISSION_ID_REGEX(s) ==
  /\ startsWith(s, SubPrefix)
  /\ \E i \in 6..(Len(s) - 1) :
       /\ s[i] = "-"
       /\ \A j \in 5..(i - 1) : s[j] \in AlnumUpper
       /\ \A j \in (i + 1)..Len(s) : s[j] \in AlnumUpper

ADMIN_ALLOWED_ORIGINS ==
  << <<"h","t","t","p","s",":","/","/","s","a","t","o","s","h","i","i","n","b","e","r","l","i","n",".","g","i","t","h","u","b",".","i","o">> >>

MIN_TOKEN_LENGTH == 16

\* The key logAdminAction writes: audit:<Date.now()>-<six base-36 digits of
\* Math.random()>, rnd being Math.random().toString(36).
auditKey_SubmissionPrefix(t, rnd) ==
  SubmissionPrefix \o DateNowText(t) \o <<"-">> \o substring(rnd, 2, 8)
auditKey(t, rnd) == AuditPrefix \o DateNowText(t) \o <<"-">> \o substring(rnd, 2, 8)

auditEntry_Untagged(action, details, clientIP, t) ==
  [timestamp |-> toISOString(t), action |-> "AUTH_FAILED", details |-> details,
   clientIP |-> clientIP]
auditEntry(action, details, clientIP, t) ==
  [timestamp |-> toISOString(t), action |-> action, details |-> details,
   clientIP |-> clientIP]

\* logAdminAction: one put; a put that throws is caught and leaves the
\* store as it was.
logAdminAction(store, action, details, clientIP, t, rnd, putWorks) ==
  IF putWorks
  THEN KvPut(store, auditKey(t, rnd),
             JSONstringify(auditEntry(action, details, clientIP, t)), AUDIT_TTL, t)
  ELSE store

\* The loop of timingSafeEqual: result |= a.charCodeAt(i) ^ b.charCodeAt(i).
RECURSIVE xorLoop(_, _, _, _)
xorLoop(a, b, i, result) ==
  IF i > Len(a) THEN result
  ELSE xorLoop(a, b, i + 1, BitOr(result, BitXor(charCodeAt(a[i]), charCodeAt(b[i]))))

\* timingSafeEqual(a, b): when the lengths differ b is REPLACED by a, and
\* the final length test reads the replaced b.
timingSafeEqual(a, b) ==
  IF a.t # "string" \/ b.t # "string" THEN FALSE
  ELSE LET b2 == IF Len(a.s) # Len(b.s) THEN a.s ELSE b.s
       IN xorLoop(a.s, b2, 1, 0) = 0 /\ Len(a.s) = Len(b2)

\* The number of times the loop body of timingSafeEqual(a, b) runs, counted
\* from index i: 'for (let i = 0; i < a.length; i++)' has no break and no
\* return; the test of the types returns before the loop.
RECURSIVE comparisonSteps_EarlyExit(_, _, _)
comparisonSteps_EarlyExit(a, b, i) ==
  IF a.t # "string" \/ b.t # "string" THEN 0
  ELSE IF Len(a.s) # Len(b.s) \/ i > Len(a.s) THEN 0
  ELSE IF a.s[i] # b.s[i] THEN 1
  ELSE 1 + comparisonSteps_EarlyExit(a, b, i + 1)
RECURSIVE comparisonSteps(_, _, _)
comparisonSteps(a, b, i) ==
  IF a.t # "string" \/ b.t # "string" THEN 0
  ELSE IF i > Len(a.s) THEN 0
  ELSE 1 + comparisonSteps(a, b, i + 1)

\* The origin test of handleAdminRequest: TRUE when the request is refused.
adminAllowedOrigins(e) ==
  ADMIN_ALLOWED_ORIGINS \o
    (IF Truthy(e.ADMIN_ALLOWED_ORIGINS_DEV) THEN split(e.ADMIN_ALLOWED_ORIGINS_DEV.s) ELSE <<>>)
adminOriginBlocked_AbsentRefused(origin, e) ==
  \/ ~ Truthy(origin)
  \/ ~ \E i \in 1..Len(adminAllowedOrigins(e)) :
         startsWith(origin.s, trim(adminAllowedOrigins(e)[i]))
adminOriginBlocked(origin, e) ==
  /\ Truthy(origin)
  /\ ~ \E i \in 1..Len(adminAllowedOrigins(e)) :
         startsWith(origin.s, trim(adminAllowedOrigins(e)[i]))

BearerPrefix == <<"B","e","a","r","e","r"," ">>
authHeaderMissing(authHeader) ==
  ~ Truthy(authHeader) \/ ~ startsWith(authHeader.s, BearerPrefix)

isConfigValid(e) ==
  Truthy(e.ADMIN_API_TOKEN) /\ Len(e.ADMIN_API_TOKEN.s) >= MIN_TOKEN_LENGTH
isTokenValid(authHeader, e) ==
  isConfigValid(e) /\ timingSafeEqual(Str(substringFrom(authHeader.s, 7)), e.ADMIN_API_TOKEN)

\* Responses.
NoResponse == [status |-> 0, kind |-> "none", text |-> "", data |-> NoText]
JsonError(status, text) == [status |-> status, kind |-> "error", text |-> text, data |-> NoText]
JsonSuccess(text) == [status |-> 200, kind |-> "success", text |-> text, data |-> NoText]
RawBody(data) == [status |-> 200, kind |-> "raw", text |-> "", data |-> data]

unauthorized == JsonError(401, "Unauthorized")

UnknownIP == <<"u","n","k","n","o","w","n">>
clientIPOf(req) == IF Truthy(req.clientIP) THEN req.clientIP.s ELSE UnknownIP

submissionKey(id) == SubmissionPrefix \o ToText(id)

authMissingResponse == unauthorized
authFailedResponse_InvalidToken == JsonError(403, "Invalid token")
authFailedResponse == unauthorized

\* The state of one admin request: where the handler stands (pc), the
\* function that produced the response (stage), the value read from the
\* store (data), the response, and the store calls issued so far (ops).
AdminIdle ==
  [pc |-> "idle", stage |-> "none", req |-> [method |-> "NONE"], data |-> NoText,
   resp |-> NoResponse, ops |-> <<>>]

AdminState(pc, stage, req, data, resp, ops) ==
  [pc |-> pc, stage |-> stage, req |-> req, data |-> data, resp |-> resp, ops |-> ops]

\* A handler that returns after one audit entry.
AuditAndReturn(p, stage, req, resp, action, details, rnd, putWorks, ops) ==
  /\ kv' = logAdminAction(kv, action, details, clientIPOf(req), now, rnd, putWorks)
  /\ adm' = [adm EXCEPT ![p] =
       AdminState("done", stage, req, NoText, resp,
                  Append(ops, Op("put", auditKey(now, rnd))))]

\* A handler that returns without touching the store.
Return(p, stage, req, resp) ==
  /\ kv' = kv
  /\ adm' = [adm EXCEPT ![p] = AdminState("done", stage, req, NoText, resp, <<>>)]

\* getContactInfo up to and including the get of the record.
getContactInfo(p, req) ==
  LET submissionId == req.query_submission_id
  IN IF ~ Truthy(submissionId)
     THEN Return(p, "getContactInfo", req, JsonError(400, "Missing submission_id parameter"))
     ELSE IF ~ SUBMISSION_ID_REGEX(ToText(submissionId))
     THEN Return(p, "getContactInfo", req, JsonError(400, "Invalid submission_id format"))
     ELSE /\ kv' = kv
          /\ adm' = [adm EXCEPT ![p] =
               AdminState("contact_log", "getContactInfo", req,
                          KvGet(kv, submissionKey(submissionId), now), NoResponse,
                          <<Op("get", submissionKey(submissionId))>>)]

\* markAsPaid up to and including the get of the record.
markAsPaid(p, req) ==
  LET submissionId == req.body_submission_id
  IN IF ~ req.bodyOk
     THEN Return(p, "markAsPaid", req, JsonError(400, "Invalid JSON body"))
     ELSE IF ~ Truthy(submissionId)
     THEN Return(p, "markAsPaid", req, JsonError(400, "Missing submission_id"))
     ELSE IF ~ SUBMISSION_ID_REGEX(ToText(submissionId))
     THEN Return(p, "markAsPaid", req, JsonError(400, "Invalid submission_id format"))
     ELSE /\ kv' = kv
          /\ adm' = [adm EXCEPT ![p] =
               AdminState("mark_write", "markAsPaid", req,
                          KvGet(kv, submissionKey(submissionId), now), NoResponse,
                          <<Op("get", submissionKey(submissionId))>>)]

\* handleAdminRequest: origin check, authentication, routing; the step ends
\* at the first await on the store that is followed by more work.
handleAdminRequest(p, req, rnd, putWorks) ==
  /\ adm[p].pc \in {"idle", "done"}
  /\ stats.requests < stats.maxRequests
  /\ IF adminOriginBlocked(req.origin, env)
     THEN AuditAndReturn(p, "origin", req, JsonError(403, "Invalid origin"), "BLOCKED_ORIGIN",
                         [origin |-> req.origin.s, path |-> req.pathname], rnd, putWorks, <<>>)
     ELSE IF authHeaderMissing(req.authorization)
     THEN AuditAndReturn(p, "auth", req, authMissingResponse, "AUTH_MISSING",
                         [path |-> req.pathname], rnd, putWorks, <<>>)
     ELSE IF ~ isTokenValid(req.authorization, env)
     THEN AuditAndReturn(p, "auth", req, authFailedResponse, "AUTH_FAILED",
                         [path |-> req.pathname], rnd, putWorks, <<>>)
     ELSE IF req.pathname = "/admin/contact" /\ req.method = "GET"
     THEN getContactInfo(p, req)
     ELSE IF req.pathname = "/admin/mark-paid" /\ req.method = "POST"
     THEN markAsPaid(p, req)
     ELSE Return(p, "route", req, JsonError(404, "Not found"))
  /\ stats' = [stats EXCEPT !.requests = @ + 1]
  /\ UNCHANGED <<env, now, sub, locationIdCache>>

\* getContactInfo after the get: the audit entry and the response.
getContactInfoReply(p, rnd, putWorks) ==
  /\ adm[p].pc = "contact_log"
  /\ LET req == adm[p].req
         data == adm[p].data
         details == [submissionId |-> ToText(req.query_submission_id)]
     IN /\ kv' = logAdminAction(kv, IF data = NoText THEN "CONTACT_NOT_FOUND" ELSE "CONTACT_ACCESSED",
                                details, clientIPOf(req), now, rnd, putWorks)
        /\ adm' = [adm EXCEPT ![p] =
             AdminState("done", "getContactInfo", req, data,
                        IF data = NoText
                        THEN JsonError(404, "Submission not found or expired")
                        ELSE RawBody(data),
                        Append(adm[p].ops, Op("put", auditKey(now, rnd))))]
  /\ UNCHANGED <<env, now, sub, locationIdCache, stats>>

\* JSON.parse(data), parsed.paidAt = ..., parsed.paid = true.
markedRecord_ContactCleared(data, t) ==
  SetProp(SetProp(SetProp(data.v, "contact_value", Str(<<>>)),
                  "paidAt", Str(toISOString(t))), "paid", Bool(TRUE))
markedRecord(data, t) ==
  SetProp(SetProp(data.v, "paidAt", Str(toISOString(t))), "paid", Bool(TRUE))

\* What markAsPaid does to the store once the record is found.
markPaidStore(store, key, data, deleteData, t) ==
  IF Truthy(deleteData)
  THEN KvDelete(store, key)
  ELSE KvPut(store, key, JSONstringify(markedRecord(data, t)), PAID_TTL, t)

\* markAsPaid after the get: not found (audit entry and 404), or delete / put.
markAsPaidWrite(p, rnd, putWorks) ==
  /\ adm[p].pc = "mark_write"
  /\ LET req == adm[p].req
         data == adm[p].data
         id == ToText(req.body_submission_id)
         key == submissionKey(req.body_submission_id)
     IN IF data = NoText
        THEN /\ AuditAndReturn(p, "markAsPaid", req, JsonError(404, "Submission not found"),
                               "MARK_PAID_NOT_FOUND", [submissionId |-> id], rnd, putWorks,
                               adm[p].ops)
             /\ stats' = stats
        ELSE /\ kv' = markPaidStore(kv, key, data, req.body_delete_data, now)
             /\ adm' = [adm EXCEPT ![p] =
                  AdminState("mark_log", "markAsPaid", req, data, NoResponse,
                             Append(adm[p].ops,
                                    Op(IF Truthy(req.body_delete_data) THEN "delete" ELSE "put", key)))]
             /\ stats' =
                  IF Truthy(req.body_delete_data)
                  THEN [stats EXCEPT !.deleted = @ \cup {id}]
                  ELSE IF id \in DOMAIN stats.marked THEN stats
                  ELSE [stats EXCEPT !.marked = SetProp(@, id, kv'[key])]
  /\ UNCHANGED <<env, now, sub, locationIdCache>>

\* markAsPaid after the delete / put: the audit entry and the response.
markAsPaidReply(p, rnd, putWorks) ==
  /\ adm[p].pc = "mark_log"
  /\ LET req == adm[p].req
         deleted == Truthy(req.body_delete_data)
     IN /\ kv' = logAdminAction(kv, IF deleted THEN "MARKED_PAID_DELETED" ELSE "MARKED_PAID",
                                [submissionId |-> ToText(req.body_submission_id)],
                                clientIPOf(req), now, rnd, putWorks)
        /\ adm' = [adm EXCEPT ![p] =
             AdminState("done", "markAsPaid", req, adm[p].data,
                        JsonSuccess(IF deleted THEN "Marked as paid and data deleted"
                                    ELSE "Marked as paid"),
                        Append(adm[p].ops, Op("put", auditKey(now, rnd))))]
  /\ UNCHANGED <<env, now, sub, locationIdCache, stats>>

\* The clock advances by d seconds; keys whose TTL has run out are gone.
Tick(d) ==
  /\ stats.ticks < MaxTicks
  /\ now' = [now EXCEPT !.sec = @ + d]
  /\ kv' = KvExpire(kv, now')
  /\ stats' = [stats EXCEPT !.ticks = @ + 1]
  /\ UNCHANGED <<env, adm, sub, locationIdCache>>

(***************************************************************************)
(* Inputs of the admin surface.                                            *)
(***************************************************************************)
AllowedOrigin == ADMIN_ALLOWED_ORIGINS[1]
EvilOrigin == <<"h","t","t","p","s",":","/","/","e","v","i","l",".","e","x","a","m","p","l","e">>
DevOrigin == <<"h","t","t","p",":","/","/","d","e","v",".","t","e","s","t">>
DevOriginList == <<"h","t","t","p",":","/","/","l","o","c","a","l","h","o","s","t",":","8","7","8","8",","," ","h","t","t","p",":","/","/","d","e","v",".","t","e","s","t">>

Token16 == <<"0","1","2","3","4","5","6","7","8","9","a","b","c","d","e","f">>
Token16LastDiffers == <<"0","1","2","3","4","5","6","7","8","9","a","b","c","d","e","X">>
Token16FirstDiffers == <<"X","1","2","3","4","5","6","7","8","9","a","b","c","d","e","f">>
Token15 == <<"0","1","2","3","4","5","6","7","8","9","a","b","c","d","e">>
Token17 == <<"0","1","2","3","4","5","6","7","8","9","a","b","c","d","e","f","g">>
Token1 == <<"x">>

PresentedTokens == {Token16, Token16LastDiffers, Token16FirstDiffers, Token15, Token17, Token1}
ConfiguredTokens == {Undefined, Str(<<>>), Str(Token15), Str(Token16), Str(Token17)}

AuthHeaders ==
  {Undefined, Str(<<"T","o","k","e","n"," ","a","b","c">>)}
    \cup {Str(BearerPrefix \o t) : t \in PresentedTokens}

Id1 == <<"S","U","B","-","A","1","-","B","2">>
Id2 == <<"S","U","B","-","M","K","3","-","9","Z","Q">>
BadIds ==
  { <<"S","U","B","-","A","1","-">>,
    <<"s","u","b","-","a","1","-","b","2">>,
    <<"S","U","B","-","A","1","-","B","2","-","C","3">>,
    <<"S","U","B","-","A","1","-","B","2"," ">>,
    RateLimitPrefix \o <<"1","0",".","0",".","0",".","1">> }

ClientIP == <<"1","0",".","0",".","0",".","1">>

\* Math.random().toString(36): an ordinary draw, and the draw 0.
OrdinaryDraw == <<"0",".","k","3","x","9","a","b","z","z">>
RandomDraws == { OrdinaryDraw, <<"0">> }

AdminRequest(method, pathname, origin, authorization, queryId, bodyOk, bodyId, deleteData) ==
  [method |-> method, pathname |-> pathname, origin |-> origin,
   authorization |-> authorization, clientIP |-> Str(ClientIP),
   query_submission_id |-> queryId, bodyOk |-> bodyOk,
   body_submission_id |-> bodyId, body_delete_data |-> deleteData]

ContactRequest(origin, authorization, id) ==
  AdminRequest("GET", "/admin/contact", origin, authorization, id, FALSE, Undefined, Undefined)
MarkPaidRequest(origin, authorization, id, deleteData) ==
  AdminRequest("POST", "/admin/mark-paid", origin, authorization, Null, TRUE, id, deleteData)

\* Requests that exercise the gate: every origin and credential, on each
\* route.
AuthRequests ==
  UNION { { ContactRequest(o, a, Str(Id1)),
            MarkPaidRequest(o, a, Str(Id1), Bool(TRUE)),
            AdminRequest("GET", "/admin/other", o, a, Null, FALSE, Undefined, Undefined) }
          : <<o, a>> \in {Undefined, Str(AllowedOrigin), Str(EvilOrigin), Str(DevOrigin)}
                          \X AuthHeaders }

\* Requests that exercise the two operations: the admin site's origin, the
\* 16-character credential, every shape of the id.
IdInputs == {Null, Str(<<>>), Str(Id1), Str(Id2)} \cup {Str(b) : b \in BadIds}
ControllerRequests ==
  LET o == Str(AllowedOrigin)
      a == Str(BearerPrefix \o Token16)
  IN {ContactRequest(o, a, id) : id \in IdInputs}
       \cup {MarkPaidRequest(o, a, id, d) : <<id, d>> \in IdInputs \X {Undefined, Bool(TRUE)}}
       \cup {AdminRequest("POST", "/admin/mark-paid", o, a, Null, FALSE, Undefined, Undefined)}

\* A store holding the private records of the submissions in ids, all
\* accepted at time t.
Contact1 ==
  [contact_method |-> Str(<<"l","i","g","h","t","n","i","n","g">>),
   contact_value |-> Str(<<"a","l","i","c","e","@","g","e","t","a","l","b","y",".","c","o","m">>)]
StoreWith(ids, t) ==
  [k \in {SubmissionPrefix \o id : id \in ids} |->
     [value |-> JSONstringify(privateRecord(Contact1, substringFrom(k, Len(SubmissionPrefix)), t)),
      expiry |-> t.sec + SUBMISSION_TTL]]

Epoch == [sec |-> 0, ms |-> 0]

\* The location id cache of a fresh worker.
EmptyCache == [ids |-> {}, lastFetched |-> 0]

Stats(maxRequests) ==
  [requests |-> 0, maxRequests |-> maxRequests, ticks |-> 0, deleted |-> {}, marked |-> <<>>,
   admitted |-> 0, limited |-> 0, preloaded |-> 0]

(***************************************************************************)
(* SpecAuth: one admin request at a time, every configuration of the       *)
(* credential and of the origin override.                                  *)
(***************************************************************************)
InitAuth ==
  /\ env \in [ADMIN_API_TOKEN : ConfiguredTokens,
              ADMIN_ALLOWED_ORIGINS_DEV : {Undefined, Str(DevOriginList)},
              ALLOWED_ORIGINS_DEV : {Undefined}]
  /\ now = Epoch
  /\ kv = StoreWith({Id1}, Epoch)
  /\ adm = [p \in {1} |-> AdminIdle]
  /\ sub = <<>>
  /\ locationIdCache = EmptyCache
  /\ stats = Stats(MaxAuthRequests)

AuthRequest == \E p \in DOMAIN adm, req \in AuthRequests \cup ControllerRequests, w \in BOOLEAN :
  handleAdminRequest(p, req, OrdinaryDraw, w)
AuthContactReply == \E p \in DOMAIN adm, w \in BOOLEAN : getContactInfoReply(p, OrdinaryDraw, w)
AuthMarkPaidWrite == \E p \in DOMAIN adm, w \in BOOLEAN : markAsPaidWrite(p, OrdinaryDraw, w)
AuthMarkPaidReply == \E p \in DOMAIN adm, w \in BOOLEAN : markAsPaidReply(p, OrdinaryDraw, w)

NextAuth == AuthRequest \/ AuthContactReply \/ AuthMarkPaidWrite \/ AuthMarkPaidReply

SpecAuth == InitAuth /\ [][NextAuth]_vars

(***************************************************************************)
(* Properties of the admin gate.                                           *)
(***************************************************************************)
\* The credential a request presents, and whether it is the configured one.
presentedToken(req) == substringFrom(req.authorization.s, 7)
credentialIsReference(req, e) ==
  e.ADMIN_API_TOKEN.t = "string" /\ presentedToken(req) = e.ADMIN_API_TOKEN.s
referenceUsable(e) == e.ADMIN_API_TOKEN.t = "string" /\ Len(e.ADMIN_API_TOKEN.s) >= 16

\* A request the origin check lets through and that carries Bearer <token>.
reachedWithBearer(r) ==
  /\ r.pc # "idle"
  /\ r.stage # "origin"
  /\ ~ authHeaderMissing(r.req.authorization)

controllerRan(r) == r.stage \in {"getContactInfo", "markAsPaid"}

\* C1: a request with a well-formed Bearer header whose token is not the
\* configured ADMIN_API_TOKEN (tokens of another length included), or that
\* meets an absent or too short configured token, is answered 401 and runs
\* neither getContactInfo nor markAsPaid.  (Stated for the requests the
\* origin check lets through.)
C1_WrongCredentialRejected ==
  \A p \in DOMAIN adm :
    (reachedWithBearer(adm[p])
       /\ (~ referenceUsable(env) \/ ~ credentialIsReference(adm[p].req, env)))
      => (adm[p].resp.status = 401 /\ ~ controllerRan(adm[p]))

\* The part of C1 the code keeps: an unusable reference, or a wrong token of
\* the reference's length, is refused.
C1_SameLengthRejected ==
  \A p \in DOMAIN adm :
    (reachedWithBearer(adm[p])
       /\ (~ referenceUsable(env)
             \/ (Len(presentedToken(adm[p].req)) = Len(env.ADMIN_API_TOKEN.s)
                   /\ ~ credentialIsReference(adm[p].req, env))))
      => (adm[p].resp.status = 401 /\ ~ controllerRan(adm[p]))

\* C2: a request that ends with 403 or 401 issued no store call on a
\* submission: key, its response carries no stored record, and the step
\* that answered it changed the store at most by one audit: key.
C2_RejectedLeavesSubmissions ==
  [][\A p \in DOMAIN adm :
       (adm'[p] # adm[p] /\ adm'[p].resp.status \in {401, 403})
         => /\ \A i \in 1..Len(adm'[p].ops) :
                 /\ ~ startsWith(adm'[p].ops[i].key, SubmissionPrefix)
                 /\ adm'[p].ops[i].op = "put"
                 /\ startsWith(adm'[p].ops[i].key, AuditPrefix)
            /\ Len(adm'[p].ops) = 1
            /\ adm'[p].resp.data = NoText
            /\ \A k \in DOMAIN kv \cup DOMAIN kv' :
                 \/ startsWith(k, AuditPrefix) /\ k = adm'[p].ops[1].key
                 \/ k \in DOMAIN kv /\ k \in DOMAIN kv' /\ kv'[k] = kv[k]]_vars

C2_Witness ==
  \E p \in DOMAIN adm :
    /\ adm[p].resp.status = 401
    /\ adm[p].req.pathname = "/admin/contact"
    /\ \E k \in DOMAIN kv : startsWith(k, AuditPrefix)
    /\ SubmissionPrefix \o Id1 \in DOMAIN kv

\* The root cause of an authentication failure.
authFailureCause(req, e) ==
  IF authHeaderMissing(req.authorization) THEN "header"
  ELSE IF e.ADMIN_API_TOKEN.t # "string" \/ e.ADMIN_API_TOKEN.s = <<>> THEN "reference absent"
  ELSE IF Len(e.ADMIN_API_TOKEN.s) < 16 THEN "reference short"
  ELSE "mismatch"

dashPositions(s) == {i \in 1..Len(s) : s[i] = "-"}
isSubmissionIdFormat(s) ==
  /\ Len(s) >= 7
  /\ <<s[1], s[2], s[3], s[4]>> = <<"S", "U", "B", "-">>
  /\ Cardinality(dashPositions(s)) = 2
  /\ \E d \in dashPositions(s) : d > 5 /\ d < Len(s)
  /\ \A i \in 5..Len(s) : i \in dashPositions(s) \/ s[i] \in AlnumUpper

\* The id parameter an operation reads.
idParameter(r) ==
  IF r.stage = "getContactInfo" THEN r.req.query_submission_id ELSE r.req.body_submission_id

wellFormedIdParameter(r) ==
  /\ Truthy(idParameter(r))
  /\ isSubmissionIdFormat(ToText(idParameter(r)))
  /\ r.stage = "markAsPaid" => r.req.bodyOk

AdminRequests ==
  LET o == Str(AllowedOrigin)
      a == Str(BearerPrefix \o Token16)
  IN {ContactRequest(o, a, Str(id)) : id \in {Id1, Id2}}
       \cup {MarkPaidRequest(o, a, Str(id), d) : <<id, d>> \in {Id1, Id2} \X {Undefined, Bool(TRUE)}}

InitAdmin ==
  /\ env = [ADMIN_API_TOKEN |-> Str(Token16), ADMIN_ALLOWED_ORIGINS_DEV |-> Undefined,
            ALLOWED_ORIGINS_DEV |-> Undefined]
  /\ now = Epoch
  /\ kv = StoreWith({Id1}, Epoch)
  /\ adm = [p \in 1..MaxAdminProcs |-> AdminIdle]
  /\ sub = <<>>
  /\ locationIdCache = EmptyCache
  /\ stats = Stats(MaxAdminRequests)

AdminArrives == \E p \in DOMAIN adm, req \in AdminRequests :
  handleAdminRequest(p, req, OrdinaryDraw, TRUE)
AdminContactReply == \E p \in DOMAIN adm : getContactInfoReply(p, OrdinaryDraw, TRUE)
AdminMarkPaidWrite == \E p \in DOMAIN adm : markAsPaidWrite(p, OrdinaryDraw, TRUE)
AdminMarkPaidReply == \E p \in DOMAIN adm : markAsPaidReply(p, OrdinaryDraw, TRUE)
AdminSecond == Tick(1)

NextAdmin ==
  AdminArrives \/ AdminContactReply \/ AdminMarkPaidWrite \/ AdminMarkPaidReply \/ AdminSecond

SpecAdmin == InitAdmin /\ [][NextAdmin]_vars

\* SpecAdminSeq: the same requests, one at a time.
InitAdminSeq ==
  /\ env = [ADMIN_API_TOKEN |-> Str(Token16), ADMIN_ALLOWED_ORIGINS_DEV |-> Undefined,
            ALLOWED_ORIGINS_DEV |-> Undefined]
  /\ now = Epoch
  /\ kv = StoreWith({Id1}, Epoch)
  /\ adm = [p \in {1} |-> AdminIdle]
  /\ sub = <<>>
  /\ locationIdCache = EmptyCache
  /\ stats = Stats(MaxAdminRequests)

SpecAdminSeq == InitAdminSeq /\ [][NextAdmin]_vars

\* C5: markPaid on an id that is not stored answers 404 and leaves the
\* submission records as they are; and once markPaid has deleted a record,
\* no admin operation on that id (a markPaid without delete_data that read
\* the record before the deletion included) stores a record under that key
\* again.
C5_DeletedStaysDeleted ==
  /\ \A id \in stats.deleted : ~ KvLive(kv, SubmissionPrefix \o id, now)
  /\ \A p \in DOMAIN adm :
       (adm[p].pc = "done" /\ adm[p].stage = "markAsPaid" /\ adm[p].resp.status = 404)
         => \A i \in 1..Len(adm[p].ops) : adm[p].ops[i].op = "get" \/ startsWith(adm[p].ops[i].key, AuditPrefix)

\* C6: after one successful markPaid on an id, the stored record (paid,
\* paidAt, contact fields and retention) stays as that marking wrote it for
\* as long as it is stored.
C6_MarkedOnce ==
  \A id \in DOMAIN stats.marked :
    KvLive(kv, SubmissionPrefix \o id, now) => kv[SubmissionPrefix \o id] = stats.marked[id]

(***************************************************************************)
(* Submission intake (worker/src/index.js).                                *)
(***************************************************************************)
ALLOWED_ORIGINS ==
  << <<"h","t","t","p","s",":","/","/","s","a","t","o","s","h","i","i","n","b","e","r","l","i","n",".","g","i","t","h","u","b",".","i","o">> >>

RATE_LIMIT_WINDOW_MS == 60 * 60 * 1000
RATE_LIMIT_MAX_REQUESTS == 10
RATE_LIMIT_TTL == 3600
CACHE_TTL_MS == 5 * 60 * 1000

\* FIELD_MAPPING: every form field name the handler knows maps to itself.
FIELD_MAPPING ==
  [k \in {"location_id", "date_time", "check_type", "public_post_url", "receipt_proof_url",
          "payment_proof_url", "venue_photo_url", "observations", "suggested_updates",
          "critical_evidence_url", "critical_post_url", "name", "address", "category",
          "website", "osm_url", "notes", "contact_method", "contact_value"} |-> k]

\* FIELD_MAPPING[key] || key.
mappedKey(key) == IF key \in DOMAIN FIELD_MAPPING THEN FIELD_MAPPING[key] ELSE key

CHECK_BASE_REQUIRED_FIELDS == {"location_id", "date_time"}
CHECK_NORMAL_REQUIRED_FIELDS == {"public_post_url"}
CHECK_CRITICAL_REQUIRED_FIELDS == {"critical_evidence_url"}
NEW_LOCATION_REQUIRED_FIELDS == {"name", "address", "category"}

urlFields ==
  <<"public_post_url", "receipt_proof_url", "payment_proof_url", "venue_photo_url",
    "website", "osm_url", "critical_evidence_url", "critical_post_url">>

\* Date.now() in milliseconds.
Ms(t) == t.sec * 1000 + t.ms

\* The origin test of fetch: TRUE when the request is refused.
allAllowedOrigins(e) ==
  ALLOWED_ORIGINS \o
    (IF Truthy(e.ALLOWED_ORIGINS_DEV) THEN split(e.ALLOWED_ORIGINS_DEV.s) ELSE <<>>)
submitOriginBlocked_AbsentAdmitted(origin, e) ==
  /\ Truthy(origin)
  /\ ~ \E i \in 1..Len(allAllowedOrigins(e)) : startsWith(origin.s, trim(allAllowedOrigins(e)[i]))
submitOriginBlocked(origin, e) ==
  \/ ~ Truthy(origin)
  \/ ~ \E i \in 1..Len(allAllowedOrigins(e)) : startsWith(origin.s, trim(allAllowedOrigins(e)[i]))

\* -------------------------------------------------------------------------
\* Rate limiter.
\* -------------------------------------------------------------------------
rateLimitKey(req) == RateLimitPrefix \o clientIPOf(req)

\* timestamps.filter(ts => now - ts < RATE_LIMIT_WINDOW_MS).
RECURSIVE filterWindow(_, _)
filterWindow(timestamps, at) ==
  IF timestamps = <<>> THEN <<>>
  ELSE (IF at - Head(timestamps) < RATE_LIMIT_WINDOW_MS THEN <<Head(timestamps)>> ELSE <<>>)
         \o filterWindow(Tail(timestamps), at)

\* What the limiter makes of the text it read: JSON.parse, then
\* (parsed.timestamps || []).filter(...).  fault: one of the two threw.
readTimestamps(data, at) ==
  IF data = NoText THEN [fault |-> FALSE, timestamps |-> <<>>]
  ELSE IF data.t # "json" THEN [fault |-> TRUE, timestamps |-> <<>>]
  ELSE IF data.v = Null THEN [fault |-> TRUE, timestamps |-> <<>>]
  ELSE IF ~ isObject(data.v) THEN [fault |-> FALSE, timestamps |-> <<>>]
  ELSE LET ts == Prop(data.v, "timestamps")
       IN IF ~ Truthy(ts) THEN [fault |-> FALSE, timestamps |-> <<>>]
          ELSE IF isObject(ts) \/ ts.t # "array" THEN [fault |-> TRUE, timestamps |-> <<>>]
          ELSE [fault |-> FALSE, timestamps |-> filterWindow(ts.a, at)]

\* timestamps.length >= RATE_LIMIT_MAX_REQUESTS.
rateLimitExceeded_Strict(timestamps) == Len(timestamps) > RATE_LIMIT_MAX_REQUESTS
rateLimitExceeded(timestamps) == Len(timestamps) >= RATE_LIMIT_MAX_REQUESTS

\* Math.ceil((Math.min(...timestamps) + RATE_LIMIT_WINDOW_MS - now) / 1000).
minOf(timestamps) ==
  timestamps[CHOOSE i \in 1..Len(timestamps) : \A j \in 1..Len(timestamps) : timestamps[i] <= timestamps[j]]
ceilDiv(n, d) == -((-n) \div d)
retryAfterSecs_Floor(timestamps, at) == (minOf(timestamps) + RATE_LIMIT_WINDOW_MS - at) \div 1000
retryAfterSecs(timestamps, at) == ceilDiv(minOf(timestamps) + RATE_LIMIT_WINDOW_MS - at, 1000)

\* String(n) of a whole number: decimal digits, with a sign when negative.
RECURSIVE numberToString(_)
numberToString(n) ==
  IF n < 0 THEN <<"-">> \o numberToString(-n)
  ELSE IF n < 10 THEN <<Ascii[17 + n]>>
  ELSE numberToString(n \div 10) \o <<Ascii[17 + (n % 10)]>>

\* timestamps.push(now).
pushTimestamp_Dropped(timestamps, at) == timestamps
pushTimestamp(timestamps, at) == Append(timestamps, at)

\* timestamps.slice(-RATE_LIMIT_MAX_REQUESTS * 2).
sliceLast(s, n) == IF Len(s) <= n THEN s ELSE SubSeq(s, Len(s) - n + 1, Len(s))

rateLimitValue(timestamps) ==
  JSONstringify([timestamps |-> Arr(sliceLast(timestamps, RATE_LIMIT_MAX_REQUESTS * 2))])

\* -------------------------------------------------------------------------
\* Payload: extraction, validation, classification.
\* -------------------------------------------------------------------------
\* field.key || field.id || field.label ("" stands for an absent name).
fieldName(field) ==
  IF field.key # "" THEN field.key ELSE IF field.id # "" THEN field.id ELSE field.label

\* The loop over a fields array: later entries overwrite earlier ones.
RECURSIVE extractFromFields(_, _)
extractFromFields(fields, formData) ==
  IF fields = <<>> THEN formData
  ELSE LET field == Head(fields)
           key == mappedKey(fieldName(field))
       IN extractFromFields(Tail(fields),
            IF key # "" /\ field.value # Undefined /\ field.value # Null
            THEN SetProp(formData, key, Str(trim(ToText(field.value))))
            ELSE formData)

\* The loop over Object.entries(payload.data).
extractFromEntries(data) ==
  [k \in {mappedKey(j) : j \in {i \in DOMAIN data : mappedKey(i) # "" /\ data[i] # Null}} |->
     Str(trim(ToText(data[k])))]

\* for (const field of fields): the entries of an array; the characters of
\* a string, none of which has a key, an id or a label.
fieldsOf(fields) ==
  IF ~ isObject(fields) /\ fields.t = "array" THEN fields.a ELSE <<>>

\* for...of throws a TypeError when what the first applicable shape loops
\* over is not iterable.
extractThrows(payload) ==
  LET data == Prop(payload, "data")
      looped == IF Truthy(data) /\ Truthy(Prop(data, "fields")) THEN Prop(data, "fields")
                ELSE IF Truthy(data) THEN Arr(<<>>)
                ELSE IF Truthy(Prop(payload, "fields")) THEN Prop(payload, "fields")
                ELSE Arr(<<>>)
  IN isObject(looped) \/ looped.t \notin {"array", "string"}

\* extractFormFields: the first shape that applies.
extractFormFields(payload) ==
  LET data == Prop(payload, "data")
      fields == Prop(payload, "fields")
  IN IF Truthy(data) /\ Truthy(Prop(data, "fields"))
     THEN extractFromFields(fieldsOf(data.fields), EmptyObject)
     ELSE IF Truthy(data) THEN extractFromEntries(data)
     ELSE IF Truthy(fields) THEN extractFromFields(fieldsOf(fields), EmptyObject)
     ELSE EmptyObject

\* /^DE-BE-\d{5}$/.test(s).
LocationPrefix == <<"D","E","-","B","E","-">>
locationIdFormat_AnyDigits(s) ==
  /\ startsWith(s, LocationPrefix)
  /\ Len(s) > 6
  /\ \A i \in 7..Len(s) : s[i] \in DigitChars
locationIdFormat(s) ==
  /\ Len(s) = 11
  /\ startsWith(s, LocationPrefix)
  /\ \A i \in 7..11 : s[i] \in DigitChars

\* Decimal text to number.
RECURSIVE parseNat(_, _)
parseNat(s, acc) ==
  IF s = <<>> THEN acc ELSE parseNat(Tail(s), acc * 10 + (charCodeAt(Head(s)) - 48))

\* new Date(text): the time in milliseconds for a text in the rendering of
\* toISOString, Invalid Date for anything else.
dateParse(s) ==
  IF /\ Len(s) >= 6
     /\ s[Len(s)] = "Z"
     /\ s[Len(s) - 4] = "."
     /\ \A i \in 1..(Len(s) - 1) : i = Len(s) - 4 \/ s[i] \in DigitChars
  THEN [valid |-> TRUE,
        ms |-> parseNat(SubSeq(s, 1, Len(s) - 5), 0) * 1000
                 + parseNat(SubSeq(s, Len(s) - 3, Len(s) - 1), 0)]
  ELSE [valid |-> FALSE, ms |-> 0]

\* submittedDate > new Date(): never true for an Invalid Date.
dateInFuture(s, t) == dateParse(s).valid /\ dateParse(s).ms > Ms(t)

\* new URL(text) succeeds: a scheme, and for http(s) a host.
SchemeChars == UpperCaseLetters \cup LowerCaseLetters \cup DigitChars \cup {"+", "-", "."}
colonAt(s) ==
  IF \E i \in 1..Len(s) : s[i] = ":"
  THEN CHOOSE i \in 1..Len(s) : s[i] = ":" /\ \A j \in 1..(i - 1) : s[j] # ":"
  ELSE 0
RECURSIVE dropSlashes(_)
dropSlashes(s) ==
  IF s # <<>> /\ Head(s) \in {"/", "\\"} THEN dropSlashes(Tail(s)) ELSE s
hostOf(rest) ==
  IF \E i \in 1..Len(rest) : rest[i] \in {"/", "?", "#"}
  THEN SubSeq(rest, 1, (CHOOSE i \in 1..Len(rest) :
                          rest[i] \in {"/", "?", "#"} /\ \A j \in 1..(i - 1) : rest[j] \notin {"/", "?", "#"}) - 1)
  ELSE rest
urlParses(s) ==
  LET c == colonAt(s)
  IN /\ c > 1
     /\ s[1] \in UpperCaseLetters \cup LowerCaseLetters
     /\ \A i \in 2..(c - 1) : s[i] \in SchemeChars
     /\ toLowerCase(SubSeq(s, 1, c - 1)) \in {<<"h","t","t","p">>, <<"h","t","t","p","s">>}
          => LET host == hostOf(dropSlashes(SubSeq(s, c + 1, Len(s))))
             IN host # <<>> /\ \A i \in 1..Len(host) : host[i] # " "

NichtAngegeben == <<"_","n","i","c","h","t"," ","a","n","g","e","g","e","b","e","n","_">>
KeineAngabe == <<"_","k","e","i","n","e"," ","A","n","g","a","b","e","_">>

\* The first URL field holding a text that is no URL ("" when there is none).
badUrlField(formData) ==
  IF \E i \in 1..Len(urlFields) :
       /\ Truthy(Prop(formData, urlFields[i]))
       /\ formData[urlFields[i]].s # NichtAngegeben
       /\ ~ urlParses(formData[urlFields[i]].s)
  THEN urlFields[CHOOSE i \in 1..Len(urlFields) :
         /\ Truthy(Prop(formData, urlFields[i]))
         /\ formData[urlFields[i]].s # NichtAngegeben
         /\ ~ urlParses(formData[urlFields[i]].s)
         /\ \A j \in 1..(i - 1) :
              ~ (/\ Truthy(Prop(formData, urlFields[j]))
                 /\ formData[urlFields[j]].s # NichtAngegeben
                 /\ ~ urlParses(formData[urlFields[j]].s))]
  ELSE ""

\* Classification.
every(fieldNames, formData) == \A f \in fieldNames : Truthy(Prop(formData, f))
isNewLocation(formData) == every(NEW_LOCATION_REQUIRED_FIELDS, formData)
isCriticalCheck(formData) ==
  Prop(formData, "check_type") = Str(<<"c","r","i","t","i","c","a","l">>)
isCheck_EitherUrl(formData) ==
  /\ every(CHECK_BASE_REQUIRED_FIELDS, formData)
  /\ \/ every(CHECK_CRITICAL_REQUIRED_FIELDS, formData)
     \/ every(CHECK_NORMAL_REQUIRED_FIELDS, formData)
isCheck(formData) ==
  /\ every(CHECK_BASE_REQUIRED_FIELDS, formData)
  /\ IF isCriticalCheck(formData)
     THEN every(CHECK_CRITICAL_REQUIRED_FIELDS, formData)
     ELSE every(CHECK_NORMAL_REQUIRED_FIELDS, formData)

\* -------------------------------------------------------------------------
\* Ledger of valid location ids (fetchValidLocationIds).
\* -------------------------------------------------------------------------
cacheFresh_OneMinute(cache, t) == cache.ids # {} /\ Ms(t) - cache.lastFetched < 60 * 1000
cacheFresh(cache, t) == cache.ids # {} /\ Ms(t) - cache.lastFetched < CACHE_TTL_MS

\* line.match(/^(DE-BE-\d{5})/).
lineMatches(line) == Len(line) >= 11 /\ locationIdFormat(SubSeq(line, 1, 11))

\* The ids of locations.csv, given as its lines: the header is skipped.
parseLedger(lines) ==
  {SubSeq(trim(lines[i]), 1, 11) :
     i \in {j \in 2..Len(lines) : trim(lines[j]) # <<>> /\ lineMatches(trim(lines[j]))}}

\* The cache after a fetch that started at time fetchAt.
ledgerCache_ClearedOnFailure(cache, outcome, lines, fetchAt) ==
  IF outcome = "ok" THEN [ids |-> parseLedger(lines), lastFetched |-> fetchAt]
  ELSE [ids |-> {}, lastFetched |-> fetchAt]
ledgerCache(cache, outcome, lines, fetchAt) ==
  IF outcome = "ok" THEN [ids |-> parseLedger(lines), lastFetched |-> fetchAt] ELSE cache

\* -------------------------------------------------------------------------
\* Submission id and Issue Publisher.
\* -------------------------------------------------------------------------
Base36Digits ==
  <<"0","1","2","3","4","5","6","7","8","9","a","b","c","d","e","f","g","h","i","j","k","l","m","n","o","p","q","r","s","t","u","v","w","x","y","z">>
RECURSIVE toString36(_)
toString36(n) ==
  IF n < 36 THEN <<Base36Digits[n + 1]>>
  ELSE toString36(n \div 36) \o <<Base36Digits[(n % 36) + 1]>>

\* generateSubmissionId: SUB-<Date.now() base 36>-<six base-36 digits>, upper-cased.
generateSubmissionId(t, rnd) ==
  toUpperCase(SubPrefix \o toString36(Ms(t)) \o <<"-">> \o substring(rnd, 2, 8))

\* String.prototype.includes.
includes(s, part) ==
  \E i \in 1..(Len(s) - Len(part) + 1) : SubSeq(s, i, i + Len(part) - 1) = part

\* data[f] || placeholder.
orElse(data, f, placeholder) == IF Truthy(Prop(data, f)) THEN data[f].s ELSE placeholder

isCriticalBody(data) ==
  \/ Prop(data, "check_type") = Str(<<"c","r","i","t","i","c","a","l">>)
  \/ /\ Truthy(Prop(data, "check_type"))
     /\ includes(data["check_type"].s, <<"K","r","i","t","i","s","c","h">>)

\* The issue body as the values it interpolates, section by section.
formatCheckBody(data, submissionId, submitterId) ==
  [submissionId |-> submissionId,
   submitterId |-> IF Truthy(submitterId) THEN submitterId.s ELSE UnknownIP,
   critical |-> isCriticalBody(data),
   sections |->
     [f \in {"location_id", "date_time", "observations", "suggested_updates"}
              \cup (IF isCriticalBody(data)
                    THEN {"critical_evidence_url", "critical_post_url"}
                    ELSE {"public_post_url", "receipt_proof_url", "payment_proof_url",
                          "venue_photo_url"}) |->
        orElse(data, f, IF f \in {"observations", "suggested_updates"}
                        THEN KeineAngabe ELSE NichtAngegeben)]]

formatNewLocationBody(data, submissionId, submitterId) ==
  [submissionId |-> submissionId,
   submitterId |-> IF Truthy(submitterId) THEN submitterId.s ELSE UnknownIP,
   critical |-> FALSE,
   sections |->
     [f \in {"name", "address", "category", "website", "osm_url", "date_time",
             "public_post_url", "receipt_proof_url", "payment_proof_url",
             "venue_photo_url", "notes"} |->
        orElse(data, f, IF f = "notes" THEN KeineAngabe ELSE NichtAngegeben)]]

\* createGitHubIssue up to the request it sends: the arguments it was given
\* and the issue (title parts, labels, body) it posts.
NoIssue == [t |-> "none"]
createGitHubIssue(pub, submissionId, submitterId, newLocation, t) ==
  [t |-> "issue",
   publicData |-> pub, submissionId |-> submissionId, submitterId |-> submitterId,
   isNewLocation |-> newLocation,
   title |->
     IF newLocation
     THEN <<"Neuer Ort", orElse(pub, "name", <<"U","n","b","e","k","a","n","n","t">>), t.sec \div 86400>>
     ELSE <<IF isCriticalCheck(pub) THEN "Kritische Aenderung" ELSE "Check",
            orElse(pub, "location_id", <<"U","N","K","N","O","W","N">>), t.sec \div 86400>>,
   labels |->
     IF newLocation THEN <<"pending", "new-location">>
     ELSE IF isCriticalCheck(pub) THEN <<"pending", "check", "critical">>
     ELSE <<"pending", "check">>,
   body |->
     IF newLocation THEN formatNewLocationBody(pub, submissionId, submitterId)
     ELSE formatCheckBody(pub, submissionId, submitterId)]

\* -------------------------------------------------------------------------
\* The handler, step by step.
\* -------------------------------------------------------------------------
TextResponse(status, text) == [status |-> status, kind |-> "text", text |-> text, data |-> NoText]

\* The state of one submit request: where the handler stands (pc), the part
\* that produced the response (stage), the captured Date.now() (at), the
\* text the limiter read (read) and the timestamps it is about to store,
\* how the limiter ended (limiter), the extracted mapping and its two
\* halves, the start of the ledger fetch, the call to the Issue Publisher,
\* the private record put into the store, and the store calls so far.
SubIdle ==
  [pc |-> "idle", stage |-> "none", req |-> [method |-> "NONE"], at |-> 0, read |-> NoText,
   timestamps |-> <<>>, limiter |-> "none", formData |-> EmptyObject, detail |-> "",
   publicData |-> EmptyObject, privateData |-> EmptyObject, fetchAt |-> 0,
   issue |-> NoIssue, written |-> NoText, submissionId |-> <<>>,
   resp |-> NoResponse, retryAfter |-> 0, retryAfterHeader |-> <<>>, ops |-> <<>>]

Respond(slot, stage, resp) == [slot EXCEPT !.pc = "done", !.stage = stage, !.resp = resp]

\* The catch of the limiter: the failure is logged and the request goes on.
limiterFault_Rethrown(slot, kind) ==
  Respond([slot EXCEPT !.limiter = kind], "limiter", JsonError(500, "Internal server error"))
limiterFault(slot, kind) == [slot EXCEPT !.pc = "payload", !.limiter = kind]

Count(s, counter) ==
  [s EXCEPT !.requests = @ + 1,
            !.admitted = IF counter = "admitted" THEN @ + 1 ELSE @,
            !.limited = IF counter = "limited" THEN @ + 1 ELSE @]

\* Paths that fetch hands to handleAdminRequest.
AdminPaths == {"/admin/contact", "/admin/mark-paid", "/admin/other"}

\* fetch, from routing to the limiter's get and its decision.
fetch_PutsWhenRejected(p, req, getWorks) ==
  /\ sub[p].pc \in {"idle", "done"}
  /\ \A q \in DOMAIN sub : q < p => sub[q].pc \notin {"idle", "done"}
  /\ stats.requests < stats.maxRequests
  /\ req.pathname \notin AdminPaths
  /\ LET at == Ms(now)
         key == rateLimitKey(req)
         data == KvGet(kv, key, now)
         rd == readTimestamps(data, at)
         slot == [SubIdle EXCEPT !.req = req, !.at = at]
         got == [slot EXCEPT !.read = data, !.ops = <<Op("get", key)>>]
         rejected == /\ req.pathname = "/api/submit" /\ req.method = "POST"
                     /\ ~ submitOriginBlocked(req.origin, env)
                     /\ getWorks /\ ~ rd.fault /\ rateLimitExceeded(rd.timestamps)
     IN /\ kv' = IF rejected
                 THEN KvPut(kv, key, rateLimitValue(pushTimestamp(rd.timestamps, at)),
                            RATE_LIMIT_TTL, now)
                 ELSE kv
        /\ IF req.pathname = "/health"
           THEN /\ sub' = [sub EXCEPT ![p] = Respond(slot, "route", [status |-> 200, kind |-> "health", text |-> "ok", data |-> NoText])]
                /\ stats' = Count(stats, "none")
           ELSE IF req.pathname # "/api/submit"
           THEN /\ sub' = [sub EXCEPT ![p] = Respond(slot, "route", TextResponse(404, "Not found"))]
                /\ stats' = Count(stats, "none")
           ELSE IF req.method # "POST"
           THEN /\ sub' = [sub EXCEPT ![p] = Respond(slot, "route", TextResponse(405, "Method not allowed"))]
                /\ stats' = Count(stats, "none")
           ELSE IF submitOriginBlocked(req.origin, env)
           THEN /\ sub' = [sub EXCEPT ![p] = Respond(slot, "origin", JsonError(403, "Invalid origin"))]
                /\ stats' = Count(stats, "none")
           ELSE IF ~ getWorks
           THEN /\ sub' = [sub EXCEPT ![p] =
                     limiterFault([slot EXCEPT !.ops = <<Op("get", key)>>], "get threw")]
                /\ stats' = Count(stats, "none")
           ELSE IF rd.fault
           THEN /\ sub' = [sub EXCEPT ![p] = limiterFault(got, "value fault")]
                /\ stats' = Count(stats, "none")
           ELSE IF rateLimitExceeded(rd.timestamps)
           THEN /\ sub' = [sub EXCEPT ![p] =
                     [Respond(got, "limiter", JsonError(429, "Rate limit exceeded"))
                        EXCEPT !.limiter = "rejected",
                               !.timestamps = rd.timestamps,
                               !.retryAfter = retryAfterSecs(rd.timestamps, at),
                               !.retryAfterHeader = numberToString(retryAfterSecs(rd.timestamps, at))]]
                /\ stats' = Count(stats, "limited")
           ELSE /\ sub' = [sub EXCEPT ![p] =
                     [got EXCEPT !.pc = "rate_put", !.limiter = "passed",
                                 !.timestamps = pushTimestamp(rd.timestamps, at)]]
                /\ stats' = Count(stats, "admitted")
  /\ UNCHANGED <<env, now, adm, locationIdCache>>

fetch(p, req, getWorks) ==
  /\ sub[p].pc \in {"idle", "done"}
  /\ \A q \in DOMAIN sub : q < p => sub[q].pc \notin {"idle", "done"}
  /\ stats.requests < stats.maxRequests
  /\ req.pathname \notin AdminPaths
  /\ LET at == Ms(now)
         key == rateLimitKey(req)
         data == KvGet(kv, key, now)
         rd == readTimestamps(data, at)
         slot == [SubIdle EXCEPT !.req = req, !.at = at]
         got == [slot EXCEPT !.read = data, !.ops = <<Op("get", key)>>]
     IN IF req.pathname = "/health"
        THEN /\ sub' = [sub EXCEPT ![p] = Respond(slot, "route", [status |-> 200, kind |-> "health", text |-> "ok", data |-> NoText])]
             /\ stats' = Count(stats, "none")
        ELSE IF req.pathname # "/api/submit"
        THEN /\ sub' = [sub EXCEPT ![p] = Respond(slot, "route", TextResponse(404, "Not found"))]
             /\ stats' = Count(stats, "none")
        ELSE IF req.method # "POST"
        THEN /\ sub' = [sub EXCEPT ![p] = Respond(slot, "route", TextResponse(405, "Method not allowed"))]
             /\ stats' = Count(stats, "none")
        ELSE IF submitOriginBlocked(req.origin, env)
        THEN /\ sub' = [sub EXCEPT ![p] = Respond(slot, "origin", JsonError(403, "Invalid origin"))]
             /\ stats' = Count(stats, "none")
        ELSE IF ~ getWorks
        THEN /\ sub' = [sub EXCEPT ![p] =
                  limiterFault([slot EXCEPT !.ops = <<Op("get", key)>>], "get threw")]
             /\ stats' = Count(stats, "none")
        ELSE IF rd.fault
        THEN /\ sub' = [sub EXCEPT ![p] = limiterFault(got, "value fault")]
             /\ stats' = Count(stats, "none")
        ELSE IF rateLimitExceeded(rd.timestamps)
        THEN /\ sub' = [sub EXCEPT ![p] =
                  [Respond(got, "limiter", JsonError(429, "Rate limit exceeded"))
                     EXCEPT !.limiter = "rejected",
                            !.timestamps = rd.timestamps,
                            !.retryAfter = retryAfterSecs(rd.timestamps, at),
                            !.retryAfterHeader = numberToString(retryAfterSecs(rd.timestamps, at))]]
             /\ stats' = Count(stats, "limited")
        ELSE /\ sub' = [sub EXCEPT ![p] =
                  [got EXCEPT !.pc = "rate_put", !.limiter = "passed",
                              !.timestamps = pushTimestamp(rd.timestamps, at)]]
             /\ stats' = Count(stats, "admitted")
  /\ UNCHANGED <<env, now, kv, adm, locationIdCache>>

\* The limiter's put; a put that throws is caught like every limiter fault.
rateLimitPut(p, putWorks) ==
  /\ sub[p].pc = "rate_put"
  /\ LET key == rateLimitKey(sub[p].req)
         slot == [sub[p] EXCEPT !.ops = Append(@, Op("put", key))]
     IN IF putWorks
        THEN /\ kv' = KvPut(kv, key, rateLimitValue(sub[p].timestamps), RATE_LIMIT_TTL, now)
             /\ sub' = [sub EXCEPT ![p] = [slot EXCEPT !.pc = "payload"]]
        ELSE /\ kv' = kv
             /\ sub' = [sub EXCEPT ![p] = limiterFault(slot, "put threw")]
  /\ UNCHANGED <<env, now, adm, locationIdCache, stats>>

\* From classification to the call of the Issue Publisher: id, separation
\* of public and private data, submitter id, the put of the private record.
\* The result is the slot and the store.
accept(slot, formData, store, t, rnd, storeWorks) ==
  LET submissionId == generateSubmissionId(t, rnd)
      pub == publicData(formData)
      priv == privateData(formData)
      submitterId == submitterIdOf(priv)
      record == JSONstringify(privateRecord(priv, submissionId, t))
      key == SubmissionPrefix \o submissionId
      split2 == [slot EXCEPT !.publicData = pub, !.privateData = priv,
                             !.submissionId = submissionId]
  IN IF DOMAIN priv # {} /\ ~ storeWorks
     THEN [slot |-> [Respond(split2, "store", JsonError(500, "Internal server error"))
                       EXCEPT !.ops = Append(@, Op("put", key))],
           store |-> store]
     ELSE [slot |-> [split2 EXCEPT
                       !.pc = "issue", !.stage = "issue",
                       !.written = IF DOMAIN priv # {} THEN record ELSE NoText,
                       !.ops = IF DOMAIN priv # {} THEN Append(@, Op("put", key)) ELSE @,
                       !.issue = createGitHubIssue(pub, submissionId, submitterId,
                                                   isNewLocation(formData), t)],
           store |-> IF DOMAIN priv # {} THEN KvPut(store, key, record, SUBMISSION_TTL, t)
                     ELSE store]

\* Validation from the existence check on, then classification and accept.
validate(slot, formData, validIds, store, t, rnd, storeWorks) ==
  IF /\ Truthy(Prop(formData, "location_id"))
     /\ validIds # {}
     /\ formData["location_id"].s \notin validIds
  THEN [slot |-> Respond(slot, "location", JsonError(400, "Location not found")), store |-> store]
  ELSE IF Truthy(Prop(formData, "date_time")) /\ dateInFuture(formData["date_time"].s, t)
  THEN [slot |-> Respond(slot, "date", JsonError(400, "Date cannot be in the future")),
        store |-> store]
  ELSE IF badUrlField(formData) # ""
  THEN [slot |-> [Respond(slot, "url", JsonError(400, "Invalid URL in field"))
                    EXCEPT !.detail = badUrlField(formData)],
        store |-> store]
  ELSE IF ~ isNewLocation(formData) /\ ~ isCheck(formData)
  THEN [slot |-> Respond(slot, "classify",
                         JsonError(400, "Invalid form data - missing required fields")),
        store |-> store]
  ELSE accept(slot, formData, store, t, rnd, storeWorks)

\* request.json(), extractFormFields, the location id format; then either
\* the ledger fetch starts or validation goes on with the cached ids.
processPayload(p, rnd, storeWorks) ==
  /\ sub[p].pc = "payload"
  /\ LET body == sub[p].req.body
         formData == extractFormFields(body.v)
         slot == [sub[p] EXCEPT !.formData = formData]
         out == validate(slot, formData, locationIdCache.ids, kv, now, rnd, storeWorks)
     IN IF ~ body.ok \/ body.v = Null \/ extractThrows(body.v)
        THEN /\ sub' = [sub EXCEPT ![p] =
                  Respond(sub[p], "payload", JsonError(500, "Internal server error"))]
             /\ kv' = kv
        ELSE IF DOMAIN formData = {}
        THEN /\ sub' = [sub EXCEPT ![p] = Respond(slot, "payload", JsonError(400, "No form data found"))]
             /\ kv' = kv
        ELSE IF /\ Truthy(Prop(formData, "location_id"))
                /\ ~ locationIdFormat(formData["location_id"].s)
        THEN /\ sub' = [sub EXCEPT ![p] =
                  Respond(slot, "location", JsonError(400, "Invalid location ID format"))]
             /\ kv' = kv
        ELSE IF Truthy(Prop(formData, "location_id")) /\ ~ cacheFresh(locationIdCache, now)
        THEN /\ sub' = [sub EXCEPT ![p] = [slot EXCEPT !.pc = "ledger", !.fetchAt = Ms(now)]]
             /\ kv' = kv
        ELSE /\ sub' = [sub EXCEPT ![p] = out.slot]
             /\ kv' = out.store
  /\ UNCHANGED <<env, now, adm, locationIdCache, stats>>

\* The ledger answers (ok with the lines of locations.csv, not ok, or the
\* fetch throws); validation goes on with the ids fetchValidLocationIds
\* returns.
ledgerReply(p, outcome, lines, rnd, storeWorks) ==
  /\ sub[p].pc = "ledger"
  /\ locationIdCache' = ledgerCache(locationIdCache, outcome, lines, sub[p].fetchAt)
  /\ LET out == validate(sub[p], sub[p].formData, locationIdCache'.ids, kv, now, rnd, storeWorks)
     IN /\ sub' = [sub EXCEPT ![p] = out.slot]
        /\ kv' = out.store
  /\ UNCHANGED <<env, now, adm, stats>>

\* The Issue Publisher answers: created, refused, or the call throws.
issueReply(p, outcome) ==
  /\ sub[p].pc = "issue"
  /\ sub' = [sub EXCEPT ![p] =
       IF outcome = "created"
       THEN Respond(sub[p], "success", [status |-> 200, kind |-> "success", text |-> "submitted", data |-> NoText])
       ELSE IF outcome = "refused"
       THEN Respond(sub[p], "issue", JsonError(500, "Failed to create GitHub issue"))
       ELSE Respond(sub[p], "issue", JsonError(500, "Internal server error"))]
  /\ UNCHANGED <<env, now, kv, adm, locationIdCache, stats>>
(***************************************************************************)
(* Inputs of the submission intake.                                        *)
(***************************************************************************)
SubmitRequest(method, pathname, origin, body) ==
  [method |-> method, pathname |-> pathname, origin |-> origin,
   clientIP |-> Str(ClientIP), body |-> body]

\* A request body: ok is FALSE when request.json() throws.
Body(ok, v) == [ok |-> ok, v |-> v]
Field(key, id, label, value) == [key |-> key, id |-> id, label |-> label, value |-> value]

PostUrl == <<"h","t","t","p","s",":","/","/","e","x","a","m","p","l","e",".","o","r","g","/","p","o","s","t","/","1">>
KnownLocation == <<"D","E","-","B","E","-","0","0","0","0","1">>
UnknownLocation == <<"D","E","-","B","E","-","9","9","9","9","9">>
ShortLocation == <<"D","E","-","B","E","-","1">>
PastDate == <<"0",".","0","0","0","Z">>
FutureDate == <<"9","9","9","9",".","0","0","0","Z">>

\* Flat shape, both contact fields (with blanks and capitals), a null value.
NewLocationFlat ==
  [data |-> [name |-> Str(<<"C","a","f","e"," ","S","a","t","o","s","h","i">>),
             address |-> Str(<<"H","a","u","p","t","s","t","r","."," ","1">>),
             category |-> Str(<<"c","a","f","e">>),
             website |-> Str(PostUrl),
             notes |-> Null,
             contact_method |-> Str(<<" ","L","i","g","h","t","n","i","n","g"," ">>),
             contact_value |-> Str(<<"A","l","i","c","e","@","G","e","t","A","l","b","y",".","c","o","m">>)]]

\* Top-level fields array, named by key, id and label; no contact fields.
NewLocationFields ==
  [fields |-> Arr(<<Field("name", "", "", Str(<<"C","a","f","e"," ","S","a","t","o","s","h","i">>)),
                    Field("", "address", "", Str(<<"H","a","u","p","t","s","t","r","."," ","1">>)),
                    Field("", "", "category", Str(<<"c","a","f","e">>)),
                    Field("", "", "", Str(<<"x">>)),
                    Field("osm_url", "", "", Undefined)>>)]

\* data.fields array: a check with both contact fields.
CheckPayload(location, date, url) ==
  [data |-> [fields |-> Arr(<<Field("location_id", "", "", Str(location)),
                               Field("date_time", "", "", Str(date)),
                               Field("public_post_url", "", "", Str(url)),
                               Field("contact_method", "", "", Str(<<"x">>)),
                               Field("contact_value", "", "", Str(<<"x">>))>>)]]

\* A critical check with one contact field only.
CriticalPayload ==
  [data |-> [location_id |-> Str(KnownLocation), date_time |-> Str(PastDate),
             check_type |-> Str(<<"c","r","i","t","i","c","a","l">>),
             critical_evidence_url |-> Str(PostUrl),
             contact_method |-> Str(<<"x">>)]]

NameOnly == [data |-> [name |-> Str(<<"C","a","f","e"," ","S","a","t","o","s","h","i">>)]]

\* A location id and nothing else.
LocationOnly(location) == [data |-> [location_id |-> Str(location)]]

SubmitBodies ==
  { Body(FALSE, Null), Body(TRUE, Null), Body(TRUE, EmptyObject),
    Body(TRUE, NewLocationFlat), Body(TRUE, NewLocationFields),
    Body(TRUE, CheckPayload(KnownLocation, PastDate, PostUrl)),
    Body(TRUE, CheckPayload(UnknownLocation, PastDate, PostUrl)),
    Body(TRUE, CheckPayload(ShortLocation, PastDate, PostUrl)),
    Body(TRUE, CheckPayload(KnownLocation, FutureDate, PostUrl)),
    Body(TRUE, CheckPayload(KnownLocation, <<"g","e","s","t","e","r","n">>, <<"n","o","t"," ","a"," ","u","r","l">>)),
    Body(TRUE, CriticalPayload), Body(TRUE, NameOnly),
    Body(TRUE, LocationOnly(ShortLocation)), Body(TRUE, LocationOnly(UnknownLocation)) }

SubmitRequests ==
  {SubmitRequest("POST", "/api/submit", Str(AllowedOrigin), b) : b \in SubmitBodies}
    \cup {SubmitRequest("POST", "/api/submit", o, Body(TRUE, NewLocationFlat)) :
            o \in {Undefined, Str(EvilOrigin), Str(DevOrigin)}}
    \cup {SubmitRequest(r[1], r[2], Str(AllowedOrigin), Body(TRUE, NewLocationFlat)) :
            r \in {<<"GET", "/api/submit">>, <<"OPTIONS", "/api/submit">>,
                   <<"POST", "/webhook/tally">>, <<"GET", "/health">>}}

\* locations.csv as its lines.
LedgerHeader == <<"l","o","c","a","t","i","o","n","_","i","d",",","n","a","m","e">>
LedgerLines ==
  <<LedgerHeader,
    <<"D","E","-","B","E","-","0","0","0","0","1",",","C","a","f","e">>,
    <<>>,
    <<" ","D","E","-","B","E","-","0","0","0","0","2",",","B","a","r"," ">>>>
LedgerReplies ==
  {<<"ok", LedgerLines>>, <<"ok", <<LedgerHeader>>>>, <<"not ok", <<>>>>, <<"threw", <<>>>>}

IssueReplies == {"created", "refused", "threw"}

\* The rate-limit entry of ClientIP holding the given timestamps, written at
\* time t; and entries the limiter did not write.
RateEntry(value, t) ==
  [k \in {RateLimitPrefix \o ClientIP} |-> [value |-> value, expiry |-> t.sec + RATE_LIMIT_TTL]]
RateStore(n, t) == RateEntry(rateLimitValue([i \in 1..n |-> Ms(t)]), t)
EmptyStore == StoreWith({}, Epoch)

Noon == [sec |-> 1000, ms |-> 0]

(***************************************************************************)
(* SpecSubmit: one submit request at a time; every payload shape, every    *)
(* state of the rate-limit entry and of the location cache, and store,     *)
(* ledger and Issue Publisher calls that fail.                             *)
(***************************************************************************)
InitSubmit ==
  /\ env \in [ADMIN_API_TOKEN : {Str(Token16)},
              ADMIN_ALLOWED_ORIGINS_DEV : {Undefined},
              ALLOWED_ORIGINS_DEV : {Undefined, Str(DevOriginList)}]
  /\ now = Noon
  /\ kv \in {EmptyStore, RateStore(RATE_LIMIT_MAX_REQUESTS, Noon),
             RateEntry([t |-> "text"], Noon),
             RateEntry(JSONstringify(Null), Noon),
             RateEntry(JSONstringify([timestamps |-> Str(<<"x">>)]), Noon)}
  /\ adm = <<>>
  /\ sub = [p \in {1} |-> SubIdle]
  /\ locationIdCache \in {EmptyCache,
                          [ids |-> {KnownLocation}, lastFetched |-> Ms(Noon) - 1000],
                          [ids |-> {KnownLocation}, lastFetched |-> 0]}
  /\ stats = Stats(MaxSubmitRequests)

SubmitArrives == \E p \in DOMAIN sub, req \in SubmitRequests, w \in BOOLEAN : fetch(p, req, w)
SubmitRatePut == \E p \in DOMAIN sub, w \in BOOLEAN : rateLimitPut(p, w)
SubmitPayload == \E p \in DOMAIN sub, w \in BOOLEAN : processPayload(p, OrdinaryDraw, w)
SubmitLedger == \E p \in DOMAIN sub, r \in LedgerReplies, w \in BOOLEAN :
  ledgerReply(p, r[1], r[2], OrdinaryDraw, w)
SubmitIssue == \E p \in DOMAIN sub, r \in IssueReplies : issueReply(p, r)

NextSubmit == SubmitArrives \/ SubmitRatePut \/ SubmitPayload \/ SubmitLedger \/ SubmitIssue

SpecSubmit == InitSubmit /\ [][NextSubmit]_vars

EnrichmentKeys == {"submissionId", "submitterId", "submittedAt"}

\* A request that passed validation and classification.
separated(slot) == slot.stage \in {"store", "issue", "success"}

\* C4: for every submission that passed classification, the public and the
\* private mapping have disjoint keys, together they are the extracted
\* mapping with the same values, contact_method and contact_value are not
\* in what the Issue Publisher gets (arguments and issue body), and what is
\* put into the store holds only the contact fields and the three
\* enrichment fields.
C4_PublicPrivateSeparation ==
  /\ \A p \in DOMAIN sub :
       separated(sub[p]) =>
         LET f == sub[p].formData
             pub == sub[p].publicData
             priv == sub[p].privateData
         IN /\ DOMAIN pub \cap DOMAIN priv = {}
            /\ DOMAIN pub \cup DOMAIN priv = DOMAIN f
            /\ \A k \in DOMAIN pub : pub[k] = f[k]
            /\ \A k \in DOMAIN priv : priv[k] = f[k]
            /\ sub[p].issue # NoIssue =>
                 /\ sub[p].issue.publicData = pub
                 /\ {"contact_method", "contact_value"} \cap DOMAIN sub[p].issue.publicData = {}
                 /\ {"contact_method", "contact_value"} \cap DOMAIN sub[p].issue.body.sections = {}
            /\ sub[p].written # NoText =>
                 DOMAIN sub[p].written.v \subseteq {"contact_method", "contact_value"} \cup EnrichmentKeys
  /\ \A k \in DOMAIN kv :
       startsWith(k, SubmissionPrefix) =>
         DOMAIN kv[k].value.v \subseteq {"contact_method", "contact_value"} \cup EnrichmentKeys

C4_Witness ==
  \E p \in DOMAIN sub :
    /\ sub[p].resp.status = 200
    /\ sub[p].stage = "success"
    /\ DOMAIN sub[p].privateData = {"contact_method", "contact_value"}
    /\ "name" \in DOMAIN sub[p].publicData
    /\ SubmissionPrefix \o sub[p].submissionId \in DOMAIN kv

limiterFailed(slot) == slot.limiter \in {"get threw", "value fault", "put threw"}

\* C9: when the limiter's get or put throws, or the stored value cannot be
\* used, the request goes on to payload processing; it is never answered
\* 429, and a 5xx answer comes from a later part of the handler (a body
\* that cannot be read, the put of the private record, the Issue Publisher).
C9_LimiterFailsOpen ==
  \A p \in DOMAIN sub :
    limiterFailed(sub[p]) =>
      /\ sub[p].pc \in {"payload", "ledger", "issue", "done"}
      /\ sub[p].resp.status # 429
      /\ sub[p].pc = "done" =>
           sub[p].stage \in {"payload", "location", "date", "url", "classify", "store", "issue", "success"}
      /\ sub[p].resp.status >= 500 =>
           \/ sub[p].stage = "payload" /\ (~ sub[p].req.body.ok \/ sub[p].req.body.v = Null)
           \/ sub[p].stage \in {"store", "issue"}

C9_Witness ==
  \E p \in DOMAIN sub :
    /\ sub[p].limiter = "value fault"
    /\ sub[p].read = [t |-> "text"]
    /\ sub[p].resp.status = 200

(***************************************************************************)
(* SpecRate: one client address, requests handled one after another, the   *)
(* store available, the clock advancing between steps.                     *)
(***************************************************************************)
RateRequests ==
  {SubmitRequest("POST", "/api/submit", Str(AllowedOrigin), b) :
     b \in {Body(TRUE, EmptyObject), Body(TRUE, NewLocationFields)}}

InitRate ==
  /\ env = [ADMIN_API_TOKEN |-> Str(Token16), ADMIN_ALLOWED_ORIGINS_DEV |-> Undefined,
            ALLOWED_ORIGINS_DEV |-> Undefined]
  /\ now = Epoch
  /\ kv = EmptyStore
  /\ adm = <<>>
  /\ sub = [p \in {1} |-> SubIdle]
  /\ locationIdCache = EmptyCache
  /\ stats = Stats(MaxRateRequests)

RateArrives == \E p \in DOMAIN sub, req \in RateRequests : fetch(p, req, TRUE)
RatePut == \E p \in DOMAIN sub : rateLimitPut(p, TRUE)
RatePayload == \E p \in DOMAIN sub : processPayload(p, OrdinaryDraw, TRUE)
RateIssue == \E p \in DOMAIN sub : issueReply(p, "created")
RateTick == \E d \in {1799, 1801} : Tick(d)

NextRate == RateArrives \/ RatePut \/ RatePayload \/ RateIssue \/ RateTick

SpecRate == InitRate /\ [][NextRate]_vars

\* The timestamps of the text a request read that are newer than one window
\* before the request's time.
storedInWindow(slot) ==
  IF slot.read = NoText THEN 0
  ELSE Cardinality({i \in 1..Len(slot.read.v.timestamps.a) :
                      slot.read.v.timestamps.a[i] > slot.at - RATE_LIMIT_WINDOW_MS})

\* C7: with requests handled one after another, a request passes the
\* limiter exactly when fewer than 10 stored timestamps are within the
\* trailing hour (whatever the payload); a refused one gets 429 with a
\* positive retryAfter; and while the clock stands still the first 10
\* requests pass and every later one is refused.
C7_SequentialLimit ==
  /\ \A p \in DOMAIN sub :
       sub[p].limiter \in {"passed", "rejected"} =>
         /\ (sub[p].limiter = "passed") <=> (storedInWindow(sub[p]) < 10)
         /\ sub[p].limiter = "rejected" => (sub[p].resp.status = 429 /\ sub[p].retryAfter > 0)
         /\ sub[p].limiter = "passed" => sub[p].resp.status # 429
  /\ stats.ticks = 0 =>
       /\ stats.admitted = (IF stats.requests < 10 THEN stats.requests ELSE 10)
       /\ stats.limited = stats.requests - stats.admitted

C7_Witness ==
  /\ stats.ticks = 0
  /\ stats.admitted = 10
  /\ stats.limited = 2
  /\ \E p \in DOMAIN sub : sub[p].resp.status = 429 /\ sub[p].retryAfter = 3600

(***************************************************************************)
(* SpecRace: requests of one client address in flight together, the clock  *)
(* standing still; the store starts with timestamps of earlier requests.   *)
(***************************************************************************)
RaceRequest == SubmitRequest("POST", "/api/submit", Str(AllowedOrigin), Body(TRUE, EmptyObject))

InitRace ==
  /\ env = [ADMIN_API_TOKEN |-> Str(Token16), ADMIN_ALLOWED_ORIGINS_DEV |-> Undefined,
            ALLOWED_ORIGINS_DEV |-> Undefined]
  /\ now = Epoch
  /\ \E n \in {RATE_LIMIT_MAX_REQUESTS - 2, RATE_LIMIT_MAX_REQUESTS - 1} :
       /\ kv = RateStore(n, Epoch)
       /\ stats = [Stats(MaxRaceRequests) EXCEPT !.preloaded = n]
  /\ adm = <<>>
  /\ sub = [p \in 1..MaxInFlight |-> SubIdle]
  /\ locationIdCache = EmptyCache

RaceArrives == \E p \in DOMAIN sub : fetch(p, RaceRequest, TRUE)
RacePut == \E p \in DOMAIN sub : rateLimitPut(p, TRUE)
RacePayload == \E p \in DOMAIN sub : processPayload(p, OrdinaryDraw, TRUE)

NextRace == RaceArrives \/ RacePut \/ RacePayload

SpecRace == InitRace /\ [][NextRace]_vars

\* c + c^2 + ... + c^r.
RECURSIVE geometricSum(_, _)
geometricSum(c, r) == IF r = 0 THEN 0 ELSE c * (1 + geometricSum(c, r - 1))

\* C8: with c requests in flight and r free places in the window, at most
\* c + c^2 + ... + c^r requests pass the limiter, however many are issued:
\* more than r, but a number fixed by c.
C8_OverAdmissionBounded ==
  stats.admitted <= geometricSum(Cardinality(DOMAIN sub), 10 - stats.preloaded)

C8_Witness ==
  /\ stats.preloaded + stats.admitted > 10
  /\ stats.requests > stats.admitted
  /\ \E p \in DOMAIN sub : sub[p].resp.status = 429
(***************************************************************************)
(* SpecRoundTrip: submissions with both contact fields arrive together,    *)
(* with every value the random source can give; an authorized getContact   *)
(* then asks for an id that a 200 answer returned.                         *)
(***************************************************************************)
NewLocationBob ==
  [data |-> [name |-> Str(<<"C","a","f","e"," ","S","a","t","o","s","h","i">>),
             address |-> Str(<<"H","a","u","p","t","s","t","r","."," ","1">>),
             category |-> Str(<<"c","a","f","e">>),
             contact_method |-> Str(<<"o","n","c","h","a","i","n">>),
             contact_value |-> Str(<<"b","o","b","@","e","x","a","m","p","l","e",".","o","r","g">>)]]

TripRequests ==
  {SubmitRequest("POST", "/api/submit", Str(AllowedOrigin), Body(TRUE, b)) :
     b \in {NewLocationFlat, NewLocationBob}}

InitRoundTrip ==
  /\ env = [ADMIN_API_TOKEN |-> Str(Token16), ADMIN_ALLOWED_ORIGINS_DEV |-> Undefined,
            ALLOWED_ORIGINS_DEV |-> Undefined]
  /\ now = Noon
  /\ kv = EmptyStore
  /\ adm = [p \in {1} |-> AdminIdle]
  /\ sub = [p \in 1..MaxInFlight |-> SubIdle]
  /\ locationIdCache = EmptyCache
  /\ stats = Stats(MaxTripRequests)

TripArrives == \E p \in DOMAIN sub, req \in TripRequests : fetch(p, req, TRUE)
TripRatePut == \E p \in DOMAIN sub : rateLimitPut(p, TRUE)
TripPayload == \E p \in DOMAIN sub, rnd \in RandomDraws : processPayload(p, rnd, TRUE)
TripIssue == \E p \in DOMAIN sub : issueReply(p, "created")
TripContact == \E p \in DOMAIN adm, s \in DOMAIN sub :
  /\ sub[s].stage = "success"
  /\ handleAdminRequest(p, ContactRequest(Str(AllowedOrigin), Str(BearerPrefix \o Token16),
                                          Str(sub[s].submissionId)),
                        OrdinaryDraw, TRUE)
TripContactReply == \E p \in DOMAIN adm : getContactInfoReply(p, OrdinaryDraw, TRUE)

NextRoundTrip ==
  TripArrives \/ TripRatePut \/ TripPayload \/ TripIssue \/ TripContact \/ TripContactReply

SpecRoundTrip == InitRoundTrip /\ [][NextRoundTrip]_vars

\* USER- and twelve hex digits.
isSubmitterIdFormat(v) ==
  /\ v.t = "string"
  /\ Len(v.s) = 17
  /\ SubSeq(v.s, 1, 5) = <<"U","S","E","R","-">>
  /\ \A i \in 6..17 : v.s[i] \in DigitChars \cup {"A","B","C","D","E","F","a","b","c","d","e","f"}

\* A submission answered 200 that carried both contact fields.
answeredWithContact(slot) ==
  /\ slot.stage = "success"
  /\ slot.resp.status = 200
  /\ {"contact_method", "contact_value"} \subseteq DOMAIN slot.formData

\* C11: an authorized getContact for the id a 200 answer returned, the
\* record being neither expired nor deleted, answers 200 with the contact
\* fields of that submission, its id, and a submitter id USER-<12 hex>.
C11_ContactRoundTrip ==
  \A p \in DOMAIN adm, s \in DOMAIN sub :
    (/\ answeredWithContact(sub[s])
     /\ adm[p].pc = "done"
     /\ adm[p].req.query_submission_id = Str(sub[s].submissionId))
      => /\ adm[p].resp.status = 200
         /\ adm[p].resp.kind = "raw"
         /\ adm[p].resp.data.v["contact_method"] = sub[s].formData["contact_method"]
         /\ adm[p].resp.data.v["contact_value"] = sub[s].formData["contact_value"]
         /\ adm[p].resp.data.v["submissionId"] = Str(sub[s].submissionId)
         /\ isSubmitterIdFormat(adm[p].resp.data.v["submitterId"])

\* C12: every id generateSubmissionId produced is SUB-<time>-<random> with
\* both segments non-empty and passes SUBMISSION_ID_REGEX.
C12_GeneratedIdWellFormed ==
  \A s \in DOMAIN sub :
    sub[s].submissionId # <<>> =>
      (isSubmissionIdFormat(sub[s].submissionId) /\ SUBMISSION_ID_REGEX(sub[s].submissionId))

\* C13: no two accepted submissions have the same id, and the record an
\* accepted submission wrote stays under its id while later ones are
\* written.
C13_IdsUnique ==
  \A s, r \in DOMAIN sub :
    (s # r /\ sub[s].written # NoText /\ sub[r].written # NoText)
      => /\ sub[s].submissionId # sub[r].submissionId
         /\ kv[SubmissionPrefix \o sub[s].submissionId].value = sub[s].written
RecordFields == {"contact_method", "contact_value", "submissionId", "submitterId", "submittedAt"}

ContactFields == {"contact_method", "contact_value"}

auditKeys(store) == {k \in DOMAIN store : startsWith(k, AuditPrefix)}

\* The tag the authentication step owes a refused request: AUTH_MISSING when
\* the Authorization header is absent or does not begin with 'Bearer '.
owedAuthTag(req) ==
  IF req.authorization.t # "string" \/ Len(req.authorization.s) < 7
       \/ SubSeq(req.authorization.s, 1, 7) # <<"B","e","a","r","e","r"," ">>
  THEN "AUTH_MISSING" ELSE "AUTH_FAILED"

C16_EveryOutcomeAudited ==
  \A p \in DOMAIN adm :
    adm[p].pc = "done"
      => \E i \in 1..Len(adm[p].ops) :
           adm[p].ops[i].op = "put" /\ startsWith(adm[p].ops[i].key, AuditPrefix)
(***************************************************************************)
(* SpecAudit: admin requests one at a time, refused and served, the random *)
(* source giving any of its values at each logAdminAction and the clock    *)
(* moving or not between two of them; every put succeeds.                  *)
(***************************************************************************)
AuditRequests ==
  AdminRequests
    \cup {ContactRequest(Str(AllowedOrigin), a, Str(Id1)) :
            a \in {Undefined, Str(BearerPrefix \o Token16LastDiffers)}}
    \cup {ContactRequest(Str(EvilOrigin), Str(BearerPrefix \o Token16), Str(Id1))}

AuditArrives == \E p \in DOMAIN adm, req \in AuditRequests, rnd \in RandomDraws :
  handleAdminRequest(p, req, rnd, TRUE)
AuditContactReply == \E p \in DOMAIN adm, rnd \in RandomDraws : getContactInfoReply(p, rnd, TRUE)
AuditMarkPaidWrite == \E p \in DOMAIN adm, rnd \in RandomDraws : markAsPaidWrite(p, rnd, TRUE)
AuditMarkPaidReply == \E p \in DOMAIN adm, rnd \in RandomDraws : markAsPaidReply(p, rnd, TRUE)
AuditSecond == Tick(1)

NextAudit ==
  AuditArrives \/ AuditContactReply \/ AuditMarkPaidWrite \/ AuditMarkPaidReply \/ AuditSecond

SpecAudit == InitAdminSeq /\ [][NextAudit]_vars

\* The audit puts among a handler's store operations.
auditPuts(ops) ==
  Cardinality({i \in 1..Len(ops) : ops[i].op = "put" /\ startsWith(ops[i].key, AuditPrefix)})

\* C17: an audit entry, once written, stays as it is (no later store
\* operation, a logAdminAction of the same millisecond included, overwrites,
\* deletes or reads it), and every successful logAdminAction makes the
\* number of audit entries grow by exactly one.
C17_AuditAppendOnly ==
  [][/\ \A k \in auditKeys(kv) : k \in DOMAIN kv' /\ kv'[k] = kv[k]
     /\ \A p \in DOMAIN adm :
          adm'[p] # adm[p]
            => /\ Cardinality(auditKeys(kv')) - Cardinality(auditKeys(kv))
                    = auditPuts(adm'[p].ops)
                        - (IF adm[p].pc \in {"idle", "done"} THEN 0 ELSE auditPuts(adm[p].ops))
               /\ \A i \in 1..Len(adm'[p].ops) :
                    startsWith(adm'[p].ops[i].key, AuditPrefix) => adm'[p].ops[i].op = "put"]_vars
(***************************************************************************)
(* Properties of the origin gates.                                         *)
(***************************************************************************)
\* The origin prefixes the submit path lists: the fixed one, and the two
\* entries of ALLOWED_ORIGINS_DEV when it is configured.
submitListedPrefixes(e) ==
  {ALLOWED_ORIGINS[1]}
    \cup (IF e.ALLOWED_ORIGINS_DEV = Str(DevOriginList)
          THEN {<<"h","t","t","p",":","/","/","l","o","c","a","l","h","o","s","t",":","8","7","8","8">>, DevOrigin}
          ELSE {})

originListed(origin, prefixes) ==
  /\ origin.t = "string"
  /\ \E a \in prefixes : Len(a) <= Len(origin.s) /\ SubSeq(origin.s, 1, Len(a)) = a

\* C18: a POST to the submit path whose Origin header is absent or begins
\* with no listed prefix is answered 403 by the arrival step itself, which
\* reads and writes nothing in the store, takes no rate-limit slot, writes
\* no audit entry and does not call the Issue Publisher.
C18_OriginRejectedFirst ==
  [][\A p \in DOMAIN sub :
       (/\ sub'[p] # sub[p]
        /\ sub[p].pc \in {"idle", "done"}
        /\ sub'[p].req.method = "POST"
        /\ sub'[p].req.pathname = "/api/submit"
        /\ ~ originListed(sub'[p].req.origin, submitListedPrefixes(env)))
         => /\ sub'[p].pc = "done"
            /\ sub'[p].resp = [status |-> 403, kind |-> "error", text |-> "Invalid origin", data |-> NoText]
            /\ sub'[p].ops = <<>>
            /\ sub'[p].limiter = "none"
            /\ sub'[p].timestamps = <<>>
            /\ sub'[p].issue = NoIssue
            /\ sub'[p].written = NoText
            /\ kv' = kv
            /\ locationIdCache' = locationIdCache
            /\ stats'.admitted = stats.admitted]_vars

C18_Witness ==
  \E p \in DOMAIN sub :
    /\ sub[p].pc = "done"
    /\ sub[p].req.method = "POST" /\ sub[p].req.pathname = "/api/submit"
    /\ sub[p].req.origin = Str(DevOrigin)
    /\ env.ALLOWED_ORIGINS_DEV = Undefined
    /\ sub[p].resp.status = 403
    /\ auditKeys(kv) = {}
    /\ RateLimitPrefix \o ClientIP \in DOMAIN kv
    /\ kv[RateLimitPrefix \o ClientIP].value = RateStore(RATE_LIMIT_MAX_REQUESTS, Noon)[RateLimitPrefix \o ClientIP].value
\* The origin prefixes the admin path lists.
adminListedPrefixes(e) ==
  {ADMIN_ALLOWED_ORIGINS[1]}
    \cup (IF e.ADMIN_ALLOWED_ORIGINS_DEV = Str(DevOriginList)
          THEN {<<"h","t","t","p",":","/","/","l","o","c","a","l","h","o","s","t",":","8","7","8","8">>, DevOrigin}
          ELSE {})

\* The answer and the one store operation of a request the origin gate of
\* the admin path refused.
blockedOriginAnswer(a) ==
  /\ a.pc = "done"
  /\ a.resp = [status |-> 403, kind |-> "error", text |-> "Invalid origin", data |-> NoText]
  /\ Len(a.ops) = 1
  /\ a.ops[1].op = "put"
  /\ startsWith(a.ops[1].key, AuditPrefix)

ClassifiedFields ==
  {"name", "address", "category", "location_id", "date_time",
   "critical_evidence_url", "public_post_url"}

ClassifyValue(f, blank) ==
  IF f \in {"category", "date_time"} /\ blank THEN Str(<<" ">>)
  ELSE IF f = "location_id" THEN Str(KnownLocation)
  ELSE IF f = "date_time" THEN Str(PastDate)
  ELSE IF f \in {"critical_evidence_url", "public_post_url"} THEN Str(PostUrl)
  ELSE Str(<<"x">>)

ClassifyPayload(present, checkType, blank) ==
  [data |-> [f \in present \cup (IF checkType = <<>> THEN {} ELSE {"check_type"}) |->
               IF f = "check_type" THEN Str(checkType) ELSE ClassifyValue(f, blank)]]

ClassifyRequests ==
  {SubmitRequest("POST", "/api/submit", Str(AllowedOrigin),
                 Body(TRUE, ClassifyPayload(S, c, b))) :
     <<S, c, b>> \in (SUBSET ClassifiedFields)
                       \X {<<>>, <<"c","r","i","t","i","c","a","l">>, <<"n","o","r","m","a","l">>}
                       \X BOOLEAN}

InitClassify ==
  /\ env = [ADMIN_API_TOKEN |-> Str(Token16), ADMIN_ALLOWED_ORIGINS_DEV |-> Undefined,
            ALLOWED_ORIGINS_DEV |-> Undefined]
  /\ now = Noon
  /\ kv = EmptyStore
  /\ adm = <<>>
  /\ sub = [p \in {1} |-> SubIdle]
  /\ locationIdCache = [ids |-> {KnownLocation}, lastFetched |-> Ms(Noon) - 1000]
  /\ stats = Stats(MaxSubmitRequests)

ClassifyArrives == \E p \in DOMAIN sub, req \in ClassifyRequests : fetch(p, req, TRUE)
ClassifyRatePut == \E p \in DOMAIN sub : rateLimitPut(p, TRUE)
ClassifyPayloadStep == \E p \in DOMAIN sub : processPayload(p, OrdinaryDraw, TRUE)
ClassifyIssue == \E p \in DOMAIN sub : issueReply(p, "created")

NextClassify == ClassifyArrives \/ ClassifyRatePut \/ ClassifyPayloadStep \/ ClassifyIssue

SpecClassify == InitClassify /\ [][NextClassify]_vars

\* The two predicates of the claim, over the extracted mapping.
nonEmpty(formData, f) ==
  f \in DOMAIN formData /\ formData[f].t = "string" /\ formData[f].s # <<>>
newLocationPredicate(formData) ==
  nonEmpty(formData, "name") /\ nonEmpty(formData, "address") /\ nonEmpty(formData, "category")
checkPredicate(formData) ==
  /\ nonEmpty(formData, "location_id")
  /\ nonEmpty(formData, "date_time")
  /\ IF "check_type" \in DOMAIN formData
          /\ formData["check_type"] = Str(<<"c","r","i","t","i","c","a","l">>)
     THEN nonEmpty(formData, "critical_evidence_url")
     ELSE nonEmpty(formData, "public_post_url")

\* A request whose payload passed format validation and was classified.
classified(slot) == slot.stage \in {"classify", "store", "issue", "success"}

\* C20: a payload that passed format validation is refused with 400 by
\* classification exactly when neither the new-location predicate nor the
\* check predicate holds, and is otherwise accepted; when both hold it is
\* processed as a new location, and otherwise as a check.
C20_Classification ==
  \A p \in DOMAIN sub :
    classified(sub[p]) =>
      /\ (sub[p].stage = "classify")
           <=> (~ newLocationPredicate(sub[p].formData) /\ ~ checkPredicate(sub[p].formData))
      /\ sub[p].stage = "classify" => (sub[p].resp.status = 400 /\ sub[p].issue = NoIssue)
      /\ sub[p].stage # "classify"
           => /\ sub[p].issue # NoIssue
              /\ sub[p].issue.isNewLocation = newLocationPredicate(sub[p].formData)
              /\ sub[p].pc = "done" => sub[p].resp.status = 200

\* A critical check without evidence is refused although it has a public
\* post URL.
C20_Witness ==
  \E p \in DOMAIN sub :
    /\ sub[p].stage = "classify" /\ sub[p].resp.status = 400
    /\ "check_type" \in DOMAIN sub[p].formData
    /\ sub[p].formData["check_type"] = Str(<<"c","r","i","t","i","c","a","l">>)
    /\ nonEmpty(sub[p].formData, "location_id") /\ nonEmpty(sub[p].formData, "date_time")
    /\ nonEmpty(sub[p].formData, "public_post_url")
    /\ ~ nonEmpty(sub[p].formData, "critical_evidence_url")
(***************************************************************************)
(* Properties of the location check (format, ledger, existence).           *)
(***************************************************************************)
\* DE-BE- and five digits, nothing else.
isLocationIdPattern(s) ==
  /\ Len(s) = 11
  /\ SubSeq(s, 1, 6) = <<"D","E","-","B","E","-">>
  /\ \A i \in 7..11 : s[i] \in {"0","1","2","3","4","5","6","7","8","9"}

\* A request whose extracted mapping carries a location_id.
carriesLocation(slot) ==
  /\ "location_id" \in DOMAIN slot.formData
  /\ slot.formData["location_id"].s # <<>>

\* C21: a location_id that does not match the pattern is refused with 400
\* without the ledger being asked, whatever the cache holds; one that
\* matches is refused with 400 by the existence check when the valid-id set
\* is not empty and does not hold it, and passes the existence check
\* otherwise, in particular whenever the valid-id set is empty.
C21_LocationCheck ==
  \A p \in DOMAIN sub :
    carriesLocation(sub[p]) =>
      LET id == sub[p].formData["location_id"].s
          refused == /\ sub[p].pc = "done" /\ sub[p].stage = "location"
                     /\ sub[p].resp.status = 400
      IN IF ~ isLocationIdPattern(id)
         THEN refused /\ sub[p].fetchAt = 0 /\ sub[p].resp.text = "Invalid location ID format"
         ELSE sub[p].pc # "ledger" =>
                IF locationIdCache.ids # {} /\ id \notin locationIdCache.ids
                THEN refused /\ sub[p].resp.text = "Location not found"
                ELSE sub[p].stage # "location"

\* An id of the right pattern that no ledger lists is accepted because the
\* refresh failed and the valid-id set is empty.
C21_Witness ==
  \E p \in DOMAIN sub :
    /\ carriesLocation(sub[p])
    /\ sub[p].formData["location_id"].s = UnknownLocation
    /\ sub[p].fetchAt # 0
    /\ locationIdCache.ids = {}
    /\ sub[p].stage = "success" /\ sub[p].resp.status = 200
\* The ledger refresh of some request fails: the answer is not OK, or the
\* fetch throws.
ledgerRefreshFailed ==
  \E p \in DOMAIN sub, outcome \in {"not ok", "threw"}, w \in BOOLEAN :
    ledgerReply(p, outcome, <<>>, OrdinaryDraw, w)

\* C22: a failed ledger refresh leaves the cache (ids and lastFetched) as it
\* was, and the request goes on with the cached set: it is refused by the
\* existence check exactly when that set is not empty and does not hold its
\* id, so never when the set is empty, and the failure itself is answered
\* with no error.
C22_FailedRefreshServesCache ==
  [][ledgerRefreshFailed =>
       /\ locationIdCache' = locationIdCache
       /\ \A p \in DOMAIN sub :
            sub[p].pc = "ledger" =>
              /\ sub'[p].pc \in {"issue", "done"}
              /\ (sub'[p].stage = "location")
                   <=> (/\ locationIdCache.ids # {}
                        /\ sub[p].formData["location_id"].s \notin locationIdCache.ids)
              /\ sub'[p].pc = "done" =>
                   sub'[p].stage \in {"location", "date", "url", "classify", "store"}
              /\ sub'[p].resp.status >= 500 => sub'[p].stage = "store"]_vars

\* After a failed refresh the stale set is still the cache and has served
\* the request.
C22_Witness ==
  \E p \in DOMAIN sub :
    /\ sub[p].fetchAt # 0
    /\ locationIdCache = [ids |-> {KnownLocation}, lastFetched |-> 0]
    /\ carriesLocation(sub[p])
    /\ sub[p].formData["location_id"].s = UnknownLocation
    /\ sub[p].stage = "location" /\ sub[p].resp.status = 400
(***************************************************************************)
(* SpecIdentity: new-location submissions in flight together whose contact *)
(* fields are absent, blank, or differ in case and surrounding blanks, at  *)
(* different times and with different other fields.  The claim compares    *)
(* two submissions: there are two of them, the clock moving in between.    *)
(***************************************************************************)
ContactPayload(method, value, notes) ==
  LET given == [contact_method |-> method, contact_value |-> value, notes |-> notes,
                name |-> Str(<<"C","a","f","e">>), address |-> Str(<<"x">>),
                category |-> Str(<<"c","a","f","e">>)]
  IN [data |-> [f \in {g \in DOMAIN given : given[g] # Undefined} |-> given[f]]]

IdentityContacts ==
  { <<Undefined, Str(<<"a","l","i","c","e","@","g","e","t","a","l","b","y",".","c","o","m">>), Undefined>>,
    <<Str(<<" ","L","i","g","h","t","n","i","n","g"," ">>), Undefined, Undefined>>,
    <<Str(<<" "," ">>), Str(<<"A","l","i","c","e","@","G","e","t","A","l","b","y",".","c","o","m">>), Undefined>>,
    <<Str(<<" ","L","i","g","h","t","n","i","n","g"," ">>),
      Str(<<"A","l","i","c","e","@","G","e","t","A","l","b","y",".","c","o","m">>), Str(<<"x">>)>>,
    <<Str(<<"l","i","g","h","t","n","i","n","g">>),
      Str(<<"a","l","i","c","e","@","g","e","t","a","l","b","y",".","c","o","m"," ">>), Undefined>>,
    <<Str(<<"L","I","G","H","T","N","I","N","G">>),
      Str(<<"b","o","b","@","e","x","a","m","p","l","e",".","o","r","g">>), Undefined>> }

IdentityRequests ==
  {SubmitRequest("POST", "/api/submit", Str(AllowedOrigin),
                 Body(TRUE, ContactPayload(c[1], c[2], c[3]))) : c \in IdentityContacts}

InitIdentity ==
  /\ env = [ADMIN_API_TOKEN |-> Str(Token16), ADMIN_ALLOWED_ORIGINS_DEV |-> Undefined,
            ALLOWED_ORIGINS_DEV |-> Undefined]
  /\ now = Noon
  /\ kv = EmptyStore
  /\ adm = <<>>
  /\ sub = [p \in {1, 2} |-> SubIdle]
  /\ locationIdCache = EmptyCache
  /\ stats = Stats(Cardinality({1, 2}))

IdentityArrives == \E p \in DOMAIN sub, req \in IdentityRequests : fetch(p, req, TRUE)
IdentityRatePut == \E p \in DOMAIN sub : rateLimitPut(p, TRUE)
IdentityPayload == \E p \in DOMAIN sub : processPayload(p, OrdinaryDraw, TRUE)
IdentityIssue == \E p \in DOMAIN sub : issueReply(p, "created")
IdentitySecond == Tick(1)

NextIdentity ==
  IdentityArrives \/ IdentityRatePut \/ IdentityPayload \/ IdentityIssue \/ IdentitySecond

SpecIdentity == InitIdentity /\ [][NextIdentity]_vars

\* A contact field as the request body gives it, without surrounding blanks
\* and in lower case; the empty text when the body has no such field.
normalizedContact(slot, f) ==
  IF f \in DOMAIN slot.req.body.v.data
  THEN toLowerCase(trim(slot.req.body.v.data[f].s))
  ELSE <<>>

\* The request has been given its submitter id.
identified(slot) == slot.issue # NoIssue

\* C23: the submitter id is null exactly when a contact field is missing
\* (absent or blank); two submissions whose contact fields are equal up to
\* letter case and surrounding blanks have the same id, whatever their
\* time, submission id and other fields; and the id sent to the Issue
\* Publisher is the one stored.
C23_SubmitterIdDeterministic ==
  /\ \A p \in DOMAIN sub :
       identified(sub[p]) =>
         /\ (sub[p].issue.submitterId = Null)
              <=> (\/ normalizedContact(sub[p], "contact_method") = <<>>
                   \/ normalizedContact(sub[p], "contact_value") = <<>>)
         /\ sub[p].written # NoText
              => sub[p].written.v["submitterId"] = sub[p].issue.submitterId
         /\ sub[p].issue.submitterId # Null => isSubmitterIdFormat(sub[p].issue.submitterId)
  /\ \A p, q \in DOMAIN sub :
       (/\ identified(sub[p]) /\ identified(sub[q])
        /\ normalizedContact(sub[p], "contact_method") = normalizedContact(sub[q], "contact_method")
        /\ normalizedContact(sub[p], "contact_value") = normalizedContact(sub[q], "contact_value"))
         => sub[p].issue.submitterId = sub[q].issue.submitterId

\* Two submissions of the same contact, written differently, at different
\* times, with different ids and other fields, and one submitter id.
C23_Witness ==
  \E p, q \in DOMAIN sub :
    /\ identified(sub[p]) /\ identified(sub[q])
    /\ sub[p].issue.submitterId # Null /\ sub[q].issue.submitterId # Null
    /\ sub[p].req.body.v.data["contact_method"] # sub[q].req.body.v.data["contact_method"]
    /\ sub[p].req.body.v.data["contact_value"] # sub[q].req.body.v.data["contact_value"]
    /\ DOMAIN sub[p].req.body.v.data # DOMAIN sub[q].req.body.v.data
    /\ sub[p].submissionId # sub[q].submissionId
    /\ sub[p].written.v["submittedAt"] # sub[q].written.v["submittedAt"]
    /\ sub[p].issue.submitterId = sub[q].issue.submitterId
(***************************************************************************)
(* Properties of the error mapping.                                        *)
(***************************************************************************)
\* A body that is no JSON, is JSON null, or has none of the three shapes.
unusableBody(body) ==
  \/ ~ body.ok
  \/ body.v = Null
  \/ (isObject(body.v) /\ DOMAIN body.v \cap {"data", "fields"} = {})

\* The request passed the origin gate and the rate limiter and its body has
\* been looked at.
bodyProcessed(slot) ==
  /\ slot.pc = "done"
  /\ slot.stage \notin {"none", "route", "origin", "limiter"}

\* C24: a request that passed the origin gate and the rate limiter and
\* whose body is malformed, JSON null, or of no recognized shape is
\* answered 400, never 500.
C24_UnusableBodyIsClientError ==
  \A p \in DOMAIN sub :
    (bodyProcessed(sub[p]) /\ unusableBody(sub[p].req.body))
      => sub[p].resp.status = 400
(***************************************************************************)
(* Store calls of the admin controllers that throw.  getContactInfo and    *)
(* markAsPaid await get, delete and put with no try around them, and fetch *)
(* returns handleAdminRequest's promise from outside its own try: the      *)
(* exception leaves the handler.                                           *)
(***************************************************************************)
\* What the client gets when the handler throws: the platform's error page,
\* not a response of the program.
UnhandledException == [status |-> 500, kind |-> "exception", text |-> "", data |-> NoText]

\* handleAdminRequest for a request that reaches the get of its record,
\* the get throwing.
storeGetThrows(p, req) ==
  /\ adm[p].pc \in {"idle", "done"}
  /\ stats.requests < stats.maxRequests
  /\ ~ adminOriginBlocked(req.origin, env)
  /\ ~ authHeaderMissing(req.authorization)
  /\ isTokenValid(req.authorization, env)
  /\ \/ /\ req.pathname = "/admin/contact" /\ req.method = "GET"
        /\ Truthy(req.query_submission_id)
        /\ SUBMISSION_ID_REGEX(ToText(req.query_submission_id))
        /\ adm' = [adm EXCEPT ![p] =
             AdminState("done", "getContactInfo", req, NoText, UnhandledException,
                        <<Op("get", submissionKey(req.query_submission_id))>>)]
     \/ /\ req.pathname = "/admin/mark-paid" /\ req.method = "POST"
        /\ req.bodyOk
        /\ Truthy(req.body_submission_id)
        /\ SUBMISSION_ID_REGEX(ToText(req.body_submission_id))
        /\ adm' = [adm EXCEPT ![p] =
             AdminState("done", "markAsPaid", req, NoText, UnhandledException,
                        <<Op("get", submissionKey(req.body_submission_id))>>)]
  /\ stats' = [stats EXCEPT !.requests = @ + 1]
  /\ UNCHANGED <<env, now, kv, sub, locationIdCache>>

\* markAsPaid after the get, the delete or the put of the record throwing.
storeWriteThrows(p) ==
  /\ adm[p].pc = "mark_write"
  /\ adm[p].data # NoText
  /\ adm' = [adm EXCEPT ![p] =
       AdminState("done", "markAsPaid", adm[p].req, adm[p].data, UnhandledException,
                  Append(adm[p].ops,
                         Op(IF Truthy(adm[p].req.body_delete_data) THEN "delete" ELSE "put",
                            submissionKey(adm[p].req.body_submission_id))))]
  /\ UNCHANGED <<env, now, kv, sub, locationIdCache, stats>>

(***************************************************************************)
(* SpecFault: authorized admin requests one at a time, every store call    *)
(* succeeding or throwing.                                                 *)
(***************************************************************************)
FaultArrives == \E p \in DOMAIN adm, req \in AdminRequests, w \in BOOLEAN :
  handleAdminRequest(p, req, OrdinaryDraw, w)
FaultContactReply == \E p \in DOMAIN adm, w \in BOOLEAN : getContactInfoReply(p, OrdinaryDraw, w)
FaultMarkPaidWrite == \E p \in DOMAIN adm, w \in BOOLEAN : markAsPaidWrite(p, OrdinaryDraw, w)
FaultMarkPaidReply == \E p \in DOMAIN adm, w \in BOOLEAN : markAsPaidReply(p, OrdinaryDraw, w)
FaultGetThrows == \E p \in DOMAIN adm, req \in AdminRequests : storeGetThrows(p, req)
FaultWriteThrows == \E p \in DOMAIN adm : storeWriteThrows(p)

NextFault ==
  \/ FaultArrives \/ FaultContactReply \/ FaultMarkPaidWrite \/ FaultMarkPaidReply
  \/ FaultGetThrows \/ FaultWriteThrows

SpecFault == InitAdminSeq /\ [][NextFault]_vars

\* C25: every request that has been answered was answered by the handler
\* (no exception left it), and an answer with status 500 is JSON with an
\* 'error' key.
C25_FaultsCaught ==
  /\ \A p \in DOMAIN adm :
       adm[p].pc = "done"
         => /\ adm[p].resp.kind \in {"error", "success", "raw"}
            /\ adm[p].resp.status >= 500 => adm[p].resp.kind = "error"
  /\ \A p \in DOMAIN sub :
       sub[p].pc = "done"
         => /\ sub[p].resp.kind # "exception"
            /\ sub[p].resp.status >= 500 => sub[p].resp.kind = "error"
(***************************************************************************)
(* SpecShape: one set of name/value pairs, sent in each of the three       *)
(* payload shapes.                                                         *)
(***************************************************************************)
ShapeNames == <<"name", "address", "category", "shop_hours", "fields">>
ShapeValues == {Str(<<" ","a"," ">>), Bool(TRUE), Null}

\* The sets of pairs: each name absent or paired with one value.
ShapePairs ==
  UNION {[names -> ShapeValues] : names \in SUBSET {ShapeNames[i] : i \in 1..Len(ShapeNames)}}

\* A fields array carries the name as key, id or label.
ShapeField(i, value) ==
  CASE i % 3 = 1 -> Field(ShapeNames[i], "", "", value)
    [] i % 3 = 2 -> Field("", ShapeNames[i], "", value)
    [] OTHER -> Field("", "", ShapeNames[i], value)

RECURSIVE ShapeFieldArray(_, _)
ShapeFieldArray(pairs, i) ==
  IF i > Len(ShapeNames) THEN <<>>
  ELSE (IF ShapeNames[i] \in DOMAIN pairs THEN <<ShapeField(i, pairs[ShapeNames[i]])>> ELSE <<>>)
         \o ShapeFieldArray(pairs, i + 1)

ShapeKinds == {"data.fields", "data", "fields"}
ShapePayload(shape, pairs) ==
  CASE shape = "data.fields" -> [data |-> [fields |-> Arr(ShapeFieldArray(pairs, 1))]]
    [] shape = "data" -> [data |-> pairs]
    [] OTHER -> [fields |-> Arr(ShapeFieldArray(pairs, 1))]

ShapeRequests ==
  {SubmitRequest("POST", "/api/submit", Str(AllowedOrigin), Body(TRUE, ShapePayload(shape, pairs))) :
     shape \in ShapeKinds, pairs \in ShapePairs}

ShapeArrives == \E p \in DOMAIN sub, req \in ShapeRequests : fetch(p, req, TRUE)
ShapeRatePut == \E p \in DOMAIN sub : rateLimitPut(p, TRUE)
ShapeExtract == \E p \in DOMAIN sub : processPayload(p, OrdinaryDraw, TRUE)
ShapeIssue == \E p \in DOMAIN sub : issueReply(p, "created")

NextShape == ShapeArrives \/ ShapeRatePut \/ ShapeExtract \/ ShapeIssue

SpecShape == InitClassify /\ [][NextShape]_vars

\* The mapping the pairs stand for: names through the table, values as
\* trimmed text, pairs with a null value dropped.
normalizedMapping(pairs) ==
  [k \in {mappedKey(n) : n \in {j \in DOMAIN pairs : pairs[j] # Null}} |->
     Str(trim(ToText(pairs[CHOOSE n \in DOMAIN pairs : pairs[n] # Null /\ mappedKey(n) = k])))]

\* C26: whichever of the three shapes carries a set of pairs, the mapping
\* extracted from the request is the normalized mapping of the pairs.
C26_ShapesAgree ==
  \A p \in DOMAIN sub, shape \in ShapeKinds, pairs \in ShapePairs :
    (/\ sub[p].pc \in {"issue", "done"}
     /\ sub[p].req.body.v = ShapePayload(shape, pairs))
      => /\ sub[p].stage # "payload" \/ sub[p].resp.status = 400
         /\ sub[p].formData = normalizedMapping(pairs)
(***************************************************************************)
(* SpecRetry: a request meets a rate-limit entry whose timestamps lie      *)
(* around the edges of the window and of a second.                         *)
(***************************************************************************)
RetryNow == [sec |-> 7200, ms |-> 500]

\* How long before RetryNow a stored timestamp was taken, in milliseconds.
RetryAges ==
  {0, 1, 500, 999, 1000, 1001, RATE_LIMIT_WINDOW_MS - 1, RATE_LIMIT_WINDOW_MS,
   RATE_LIMIT_WINDOW_MS + 1}

\* Nine requests of one moment and two of other moments, in either order;
\* the entry was put when the newest of them was handled.
RetryStored(a, b, c) ==
  LET ts == <<Ms(RetryNow) - b>> \o [i \in 1..(RATE_LIMIT_MAX_REQUESTS - 1) |-> Ms(RetryNow) - a]
              \o <<Ms(RetryNow) - c>>
      newest == CHOOSE x \in {a, b, c} : \A y \in {a, b, c} : x <= y
  IN RateEntry(rateLimitValue(ts), [sec |-> (Ms(RetryNow) - newest) \div 1000, ms |-> 0])

InitRetry ==
  /\ env = [ADMIN_API_TOKEN |-> Str(Token16), ADMIN_ALLOWED_ORIGINS_DEV |-> Undefined,
            ALLOWED_ORIGINS_DEV |-> Undefined]
  /\ now = RetryNow
  /\ \E a \in RetryAges, b \in RetryAges, c \in RetryAges : kv = RetryStored(a, b, c)
  /\ adm = <<>>
  /\ sub = [p \in {1} |-> SubIdle]
  /\ locationIdCache = EmptyCache
  /\ stats = Stats(MaxSubmitRequests)

RetryArrives == \E p \in DOMAIN sub :
  fetch(p, SubmitRequest("POST", "/api/submit", Str(AllowedOrigin), Body(TRUE, NewLocationFlat)), TRUE)
RetryRatePut == \E p \in DOMAIN sub : rateLimitPut(p, TRUE)
RetryPayload == \E p \in DOMAIN sub : processPayload(p, OrdinaryDraw, TRUE)
RetryIssue == \E p \in DOMAIN sub : issueReply(p, "created")

NextRetry == RetryArrives \/ RetryRatePut \/ RetryPayload \/ RetryIssue

SpecRetry == InitRetry /\ [][NextRetry]_vars

\* The timestamps the request read, and those of them in its window.
storedTimestamps(slot) ==
  {slot.read.v.timestamps.a[i] : i \in 1..Len(slot.read.v.timestamps.a)}
retainedTimestamps(slot) ==
  {ts \in storedTimestamps(slot) : slot.at - ts < RATE_LIMIT_WINDOW_MS}
oldestRetained(slot) ==
  CHOOSE ts \in retainedTimestamps(slot) : \A other \in retainedTimestamps(slot) : ts <= other

\* C27: on a 429 the retryAfter of the body is the least whole number of
\* seconds not less than (oldest retained timestamp + window - now) / 1000,
\* the Retry-After header is that number in decimal, and the number is
\* between 1 and 3600 when no stored timestamp is later than now.
C27_RetryAfter ==
  \A p \in DOMAIN sub :
    sub[p].resp.status = 429 =>
      LET remaining == oldestRetained(sub[p]) + RATE_LIMIT_WINDOW_MS - sub[p].at
      IN /\ sub[p].retryAfter * 1000 >= remaining
         /\ (sub[p].retryAfter - 1) * 1000 < remaining
         /\ sub[p].retryAfterHeader # <<>>
         /\ \A i \in 1..Len(sub[p].retryAfterHeader) : sub[p].retryAfterHeader[i] \in DigitChars
         /\ parseNat(sub[p].retryAfterHeader, 0) = sub[p].retryAfter
         /\ (\A ts \in storedTimestamps(sub[p]) : ts <= sub[p].at)
              => (sub[p].retryAfter >= 1 /\ sub[p].retryAfter <= 3600)

\* A 429 one millisecond before the oldest retained timestamp leaves the
\* window, older timestamps having been dropped.
C27_Witness ==
  /\ \E p \in DOMAIN sub :
       /\ sub[p].resp.status = 429
       /\ sub[p].retryAfter = 1
       /\ sub[p].retryAfterHeader = <<"1">>
       /\ retainedTimestamps(sub[p]) # storedTimestamps(sub[p])
       /\ oldestRetained(sub[p]) + RATE_LIMIT_WINDOW_MS - sub[p].at = 1
\* C28: on the submit path an OPTIONS request is answered 204 (the CORS
\* preflight) and every other request that is not a POST is answered 405.
C28_PreflightAnswered ==
  \A p \in DOMAIN sub :
    (sub[p].pc = "done" /\ sub[p].req.pathname = "/api/submit")
      => /\ sub[p].req.method = "OPTIONS" => sub[p].resp.status = 204
         /\ sub[p].req.method \notin {"POST", "OPTIONS"} => sub[p].resp.status = 405

\* C29: a POST to /webhook/tally enters the pipeline of /api/submit (origin
\* gate, limiter, payload) like a POST to /api/submit; it is not turned
\* away by the router.
C29_LegacyPathServed ==
  \A p \in DOMAIN sub :
    (/\ sub[p].pc = "done"
     /\ sub[p].req.method = "POST"
     /\ sub[p].req.pathname \in {"/api/submit", "/webhook/tally"})
      => (sub[p].stage # "route" /\ sub[p].resp.status # 404)
(***************************************************************************)
(* SpecCompare: timingSafeEqual called twice with one first argument and   *)
(* any two second arguments, strings of several lengths and values that    *)
(* are no strings.  A slot holds a call: its arguments and, once it        *)
(* returned, its result and the number of times its loop body ran.         *)
(***************************************************************************)
CompareArguments ==
  {Undefined, Null, Bool(TRUE), Str(<<>>), Str(Token1), Str(Token15), Str(Token16),
   Str(Token16LastDiffers), Str(Token16FirstDiffers), Str(Token17)}

InitCompare ==
  /\ env = [ADMIN_API_TOKEN |-> Str(Token16), ADMIN_ALLOWED_ORIGINS_DEV |-> Undefined,
            ALLOWED_ORIGINS_DEV |-> Undefined]
  /\ now = Epoch
  /\ kv = EmptyStore
  /\ \E a \in CompareArguments, b \in [{1, 2} -> CompareArguments] :
       adm = [p \in {1, 2} |->
                [pc |-> "called", a |-> a, b |-> b[p], result |-> Undefined, steps |-> 0]]
  /\ sub = <<>>
  /\ locationIdCache = EmptyCache
  /\ stats = Stats(Cardinality({1, 2}))

CompareReturns == \E p \in DOMAIN adm :
  /\ adm[p].pc = "called"
  /\ adm' = [adm EXCEPT ![p] = [@ EXCEPT !.pc = "returned",
                                         !.result = Bool(timingSafeEqual(adm[p].a, adm[p].b)),
                                         !.steps = comparisonSteps(adm[p].a, adm[p].b, 1)]]
  /\ UNCHANGED <<env, now, kv, sub, locationIdCache, stats>>

NextCompare == CompareReturns

SpecCompare == InitCompare /\ [][NextCompare]_vars

\* C30: timingSafeEqual(a, b) returns true exactly when a and b are both
\* strings and the same string; so false for strings of different length
\* (an empty a included) and whenever an argument is not a string.
C30_EqualExactlyWhenSameString ==
  \A p \in DOMAIN adm :
    adm[p].pc = "returned"
      => (adm[p].result = Bool(TRUE)
            <=> (adm[p].a.t = "string" /\ adm[p].b.t = "string" /\ adm[p].a.s = adm[p].b.s))
\* The timestamps stored for the client address.
storedForClient ==
  LET key == RateLimitPrefix \o ClientIP
  IN IF key \in DOMAIN kv THEN kv[key].value.v.timestamps.a ELSE <<>>

\* C31: once every admitted request has made its put, the stored sequence
\* counts all of them next to the timestamps it started with (the clock
\* stands still, so none has left the window): no put of one request has
\* removed a timestamp another admitted request added.
C31_AdmittedTimestampsKept ==
  (\A p \in DOMAIN sub : sub[p].pc # "rate_put")
    => Len(storedForClient) >= stats.preloaded + stats.admitted
(***************************************************************************)
(* SpecRetention: admin requests one at a time on a record submitted at    *)
(* time 0, with months passing between them.                               *)
(***************************************************************************)
Day == 24 * 60 * 60

RetentionArrives == \E p \in DOMAIN adm, req \in AdminRequests :
  handleAdminRequest(p, req, OrdinaryDraw, TRUE)
RetentionContactReply == \E p \in DOMAIN adm : getContactInfoReply(p, OrdinaryDraw, TRUE)
RetentionMarkPaidWrite == \E p \in DOMAIN adm : markAsPaidWrite(p, OrdinaryDraw, TRUE)
RetentionMarkPaidReply == \E p \in DOMAIN adm : markAsPaidReply(p, OrdinaryDraw, TRUE)
RetentionMonths == \E d \in {20 * Day, 60 * Day, 100 * Day} : Tick(d)

NextRetention ==
  \/ RetentionArrives \/ RetentionContactReply \/ RetentionMarkPaidWrite
  \/ RetentionMarkPaidReply \/ RetentionMonths

SpecRetention == InitAdminSeq /\ [][NextRetention]_vars

submissionKeys(store) == {k \in DOMAIN store : startsWith(k, SubmissionPrefix)}

\* C32: no step moves the expiry of a stored private record to a later
\* time, so a record submitted at time 0 is never stored with an expiry
\* beyond 180 days.
C32_RetentionOnlyShortened ==
  [][/\ \A k \in submissionKeys(kv) \cap submissionKeys(kv') : kv'[k].expiry <= kv[k].expiry
     /\ \A k \in submissionKeys(kv') : kv'[k].expiry <= SUBMISSION_TTL]_vars
(***************************************************************************)
(* SpecLedger: check submissions of one location id, one at a time and     *)
(* minutes apart, the ledger answering with ids, with none, or not at all. *)
(***************************************************************************)
MaxLedgerRequests == 2

LedgerRequests ==
  {SubmitRequest("POST", "/api/submit", Str(AllowedOrigin), Body(TRUE, b)) :
     b \in {CheckPayload(KnownLocation, PastDate, PostUrl), NewLocationFlat}}

InitLedger ==
  /\ env = [ADMIN_API_TOKEN |-> Str(Token16), ADMIN_ALLOWED_ORIGINS_DEV |-> Undefined,
            ALLOWED_ORIGINS_DEV |-> Undefined]
  /\ now = Noon
  /\ kv = EmptyStore
  /\ adm = <<>>
  /\ sub = [p \in {1} |-> SubIdle]
  /\ locationIdCache = EmptyCache
  /\ stats = Stats(MaxLedgerRequests)

LedgerArrives == \E p \in DOMAIN sub, req \in LedgerRequests : fetch(p, req, TRUE)
LedgerRatePut == \E p \in DOMAIN sub : rateLimitPut(p, TRUE)
LedgerPayload == \E p \in DOMAIN sub : processPayload(p, OrdinaryDraw, TRUE)
LedgerAnswers == \E p \in DOMAIN sub, r \in LedgerReplies :
  ledgerReply(p, r[1], r[2], OrdinaryDraw, TRUE)
LedgerIssue == \E p \in DOMAIN sub : issueReply(p, "created")
LedgerMinutes == \E d \in {120, 200} : Tick(d)

NextLedger ==
  \/ LedgerArrives \/ LedgerRatePut \/ LedgerPayload \/ LedgerAnswers \/ LedgerIssue
  \/ LedgerMinutes

SpecLedger == InitLedger /\ [][NextLedger]_vars

\* A request starts a fetch of the ledger in this step.
ledgerFetchIssued ==
  \E p \in DOMAIN sub : sub[p].pc # "ledger" /\ sub'[p].pc = "ledger"

unclassifiable(slot) ==
  /\ DOMAIN slot.formData # {}
  /\ ~ isNewLocation(slot.formData)
  /\ ~ isCheck(slot.formData)

\* C34: a payload that satisfies neither predicate is answered with the
\* classification error; no format check answers it and it starts no fetch
\* of the ledger.
C34_ClassifiedBeforeValidated ==
  \A p \in DOMAIN sub :
    unclassifiable(sub[p])
      => /\ sub[p].pc # "ledger"
         /\ sub[p].fetchAt = 0
         /\ sub[p].pc = "done" => sub[p].stage = "classify"

\* C35: two calls of timingSafeEqual with the same presented string and any
\* two reference strings run the loop body the same number of times, once
\* for each character of the presented string: the count does not tell
\* where the strings differ nor whether their lengths differ.
C35_StepsDependOnPresentedOnly ==
  \A p \in DOMAIN adm, q \in DOMAIN adm :
    (/\ adm[p].pc = "returned" /\ adm[q].pc = "returned"
     /\ adm[p].a = adm[q].a
     /\ adm[p].a.t = "string" /\ adm[p].b.t = "string" /\ adm[q].b.t = "string")
      => /\ adm[p].steps = adm[q].steps
         /\ adm[p].steps = Len(adm[p].a.s)

\* The 16-character string compared with one that differs in its first
\* character and with one of another length.
C35_Witness ==
  /\ adm[1].pc = "returned" /\ adm[2].pc = "returned"
  /\ adm[1].a = Str(Token16) /\ adm[1].b = Str(Token16FirstDiffers)
  /\ adm[2].a = Str(Token16) /\ adm[2].b = Str(Token17)
  /\ adm[1].steps = 16 /\ adm[2].steps = 16

\* C36: the step that answers a request with 429 leaves the store as it is
\* (the client's timestamps and the expiry of their key included), and the
\* request has issued no put.
C36_RejectedWritesNothing ==
  [][\A p \in DOMAIN sub :
       (sub'[p] # sub[p] /\ sub'[p].resp.status = 429)
         => /\ kv' = kv
            /\ \A i \in 1..Len(sub'[p].ops) : sub'[p].ops[i].op = "get"]_vars

\* A request refused half an hour after the ten that filled the window: the
\* entry still holds those ten and expires one hour after the last of them.
C36_Witness ==
  \E p \in DOMAIN sub :
    /\ sub[p].resp.status = 429
    /\ sub[p].at = 1799 * 1000
    /\ Len(storedForClient) = RATE_LIMIT_MAX_REQUESTS
    /\ \A i \in 1..Len(storedForClient) : storedForClient[i] = 0
    /\ kv[RateLimitPrefix \o ClientIP].expiry = RATE_LIMIT_TTL

\* The records under 'submission:' keys.
submissionRecords(store) == [k \in submissionKeys(store) |-> store[k]]

\* C37: a step changes no field of a stored private record other than paid
\* and paidAt (it adds and removes none); getContactInfo leaves every
\* 'submission:' key as it is, reads the record with one get and answers 200
\* with exactly the text it read.
C37_OnlyPaidFieldsChange ==
  [][/\ \A k \in submissionKeys(kv) \cap submissionKeys(kv') :
          /\ DOMAIN kv'[k].value.v \ {"paid", "paidAt"} = DOMAIN kv[k].value.v \ {"paid", "paidAt"}
          /\ \A f \in DOMAIN kv[k].value.v \ {"paid", "paidAt"} :
               kv'[k].value.v[f] = kv[k].value.v[f]
     /\ \A p \in DOMAIN adm :
          (adm'[p] # adm[p] /\ adm'[p].stage = "getContactInfo")
            => /\ submissionRecords(kv') = submissionRecords(kv)
               /\ adm'[p].pc = "contact_log"
                    => adm'[p].data = KvGet(kv, submissionKey(adm'[p].req.query_submission_id), now)
               /\ adm'[p].resp.status = 200
                    => (adm'[p].resp = RawBody(adm[p].data) /\ adm[p].data # NoText)]_vars

\* getContactInfo has returned a record that markAsPaid rewrote: it holds
\* paid and the contact fields it was submitted with.
C37_Witness ==
  \E p \in DOMAIN adm :
    /\ adm[p].pc = "done" /\ adm[p].stage = "getContactInfo"
    /\ adm[p].resp.status = 200
    /\ "paid" \in DOMAIN adm[p].resp.data.v
    /\ adm[p].resp.data.v.paid = Bool(TRUE)
    /\ \A f \in {"contact_method", "contact_value", "submissionId", "submitterId", "submittedAt"} :
         /\ f \in DOMAIN adm[p].resp.data.v
         /\ adm[p].resp.data.v[f] = StoreWith({Id1}, Epoch)[SubmissionPrefix \o Id1].value.v[f]
    /\ adm[p].resp.data = kv[SubmissionPrefix \o Id1].value

\* C38: while the Issue Publisher is being called the private record of the
\* submission is already stored; and the step in which the publisher
\* reports failure or throws answers 500 with an error that carries no
\* submission id, changes nothing in the store and leaves that record
\* stored as it was written.
C38_RecordKeptOnPublisherFailure ==
  [][\A p \in DOMAIN sub :
       /\ (sub[p].pc = "issue" /\ sub[p].written # NoText)
            => /\ KvLive(kv, SubmissionPrefix \o sub[p].submissionId, now)
               /\ kv[SubmissionPrefix \o sub[p].submissionId].value = sub[p].written
       /\ (sub[p].pc = "issue" /\ sub'[p].pc = "done" /\ sub'[p].resp.status # 200)
            => /\ sub'[p].resp.status = 500
               /\ sub'[p].resp.kind = "error"
               /\ sub'[p].resp.data = NoText
               /\ kv' = kv
               /\ sub[p].written # NoText
                    => /\ KvLive(kv', SubmissionPrefix \o sub[p].submissionId, now)
                       /\ kv'[SubmissionPrefix \o sub[p].submissionId].value = sub[p].written]_vars

(***************************************************************************)
(* SpecOrigin: both surfaces, one request each at a time, with every shape *)
(* of the comma-separated development override: unset, two entries, a      *)
(* trailing comma, an empty entry, a whitespace-only entry.                *)
(***************************************************************************)
MaxOriginRequests == 2

OriginOverrides ==
  { Undefined, Str(DevOriginList),
    Str(DevOrigin \o <<",">>),
    Str(DevOrigin \o <<",", ",">> \o DevOrigin),
    Str(DevOrigin \o <<",", " ">>) }

OriginAdminRequests ==
  { ContactRequest(Str(o), Str(BearerPrefix \o Token16), Str(Id1)) :
      o \in {AllowedOrigin, EvilOrigin, DevOrigin} }

OriginSubmitRequests ==
  { SubmitRequest("POST", "/api/submit", Str(o), Body(TRUE, NewLocationFlat)) :
      o \in {AllowedOrigin, EvilOrigin, DevOrigin} }

InitOrigin ==
  /\ env \in [ADMIN_API_TOKEN : {Str(Token16)},
              ADMIN_ALLOWED_ORIGINS_DEV : OriginOverrides,
              ALLOWED_ORIGINS_DEV : OriginOverrides]
  /\ now = Noon
  /\ kv = StoreWith({Id1}, Noon)
  /\ adm = [p \in {1} |-> AdminIdle]
  /\ sub = [p \in {1} |-> SubIdle]
  /\ locationIdCache = EmptyCache
  /\ stats = Stats(MaxOriginRequests)

OriginAdminArrives == \E p \in DOMAIN adm, req \in OriginAdminRequests, w \in BOOLEAN :
  handleAdminRequest(p, req, OrdinaryDraw, w)
OriginContactReply == \E p \in DOMAIN adm, w \in BOOLEAN : getContactInfoReply(p, OrdinaryDraw, w)
OriginSubmitArrives == \E p \in DOMAIN sub, req \in OriginSubmitRequests, w \in BOOLEAN : fetch(p, req, w)
OriginRatePut == \E p \in DOMAIN sub, w \in BOOLEAN : rateLimitPut(p, w)
OriginPayload == \E p \in DOMAIN sub, w \in BOOLEAN : processPayload(p, OrdinaryDraw, w)
OriginIssue == \E p \in DOMAIN sub, r \in IssueReplies : issueReply(p, r)

NextOrigin ==
  OriginAdminArrives \/ OriginContactReply \/ OriginSubmitArrives \/ OriginRatePut
    \/ OriginPayload \/ OriginIssue

SpecOrigin == InitOrigin /\ [][NextOrigin]_vars

\* The non-empty origin strings a surface is configured with: the fixed
\* list and the entries of the override, surrounding blanks removed.
configuredOrigins(fixed, override) ==
  ({fixed[i] : i \in DOMAIN fixed}
     \cup (IF override.t = "string"
           THEN {trim(split(override.s)[i]) : i \in DOMAIN split(override.s)}
           ELSE {}))
    \ {<<>>}

\* C39: on both surfaces and for every value of the development override,
\* a request whose Origin header begins with none of the non-empty
\* configured origin strings is answered 403.
C39_OnlyConfiguredOriginsAdmitted ==
  /\ \A p \in DOMAIN sub :
       (/\ sub[p].pc = "done"
        /\ sub[p].req.origin.t = "string"
        /\ ~ originListed(sub[p].req.origin,
                          configuredOrigins(ALLOWED_ORIGINS, env.ALLOWED_ORIGINS_DEV)))
         => sub[p].resp.status = 403
  /\ \A p \in DOMAIN adm :
       (/\ adm[p].pc = "done"
        /\ adm[p].req.origin.t = "string"
        /\ ~ originListed(adm[p].req.origin,
                          configuredOrigins(ADMIN_ALLOWED_ORIGINS, env.ADMIN_ALLOWED_ORIGINS_DEV)))
         => adm[p].resp.status = 403
====
